------------------------------ MODULE AppendLog ------------------------------
(***************************************************************************)
(* What the value store promises the trie: an append-only log of records.  *)
(* A record, once appended, keeps its position for ever and is what a read *)
(* of that position returns.  Files, offsets and mappings do not appear.   *)
(* VDLS.tla implements this module.                                        *)
(***************************************************************************)
EXTENDS Naturals, Sequences

CONSTANTS
    Record,      \* what a caller may append: a version, a key and a value
    TextOf,      \* TextOf[r]: the value a read of record r returns
    NoReply,     \* no read has answered since the last append
    MaxRecords   \* bound: appends per behaviour

VARIABLES
    log,         \* the records, in the order they were appended
    reply        \* the last read's position and answer, or NoReply

vars == <<log, reply>>

Init == log = <<>> /\ reply = NoReply

AppendRecord(r) ==
    /\ Len(log) < MaxRecords
    /\ log' = Append(log, r)
    /\ reply' = NoReply

ReadRecord(k) ==
    /\ reply' = [of |-> k, text |-> TextOf[log[k]]]
    /\ UNCHANGED log

Next ==
    \/ \E r \in Record : AppendRecord(r)
    \/ \E k \in DOMAIN log : ReadRecord(k)

Spec == Init /\ [][Next]_vars
=============================================================================
