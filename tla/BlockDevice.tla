----------------------------- MODULE BlockDevice -----------------------------
(***************************************************************************)
(* What an io_manager promises libext2fs: each mounted filesystem has a    *)
(* device of its own, an array of units, on which one request at a time is *)
(* answered.  A request that fails may have been done in part.             *)
(***************************************************************************)
EXTENDS Integers, Sequences

CONSTANTS Mounts, Size,  \* [Mounts -> Nat], in units
          Values, None

VARIABLES units,   \* the device of each filesystem
          asked,   \* the request that waits for its answer
          told     \* the last answer

\* data is what the units asked for are to hold; empty for a read.
Request == [by : Mounts, from : Nat, len : Nat, data : Seq(Values)]
IsRead(r) == r.data = << >>
Span(r) == r.from .. r.from + r.len - 1

Init == /\ units \in [Mounts -> UNION {[0 .. Size[m] - 1 -> Values] : m \in Mounts}]
        /\ \A m \in Mounts : DOMAIN units[m] = 0 .. Size[m] - 1
        /\ asked = None
        /\ told = None

Ask == /\ asked = None
       /\ asked' # None
       /\ Span(asked') \subseteq 0 .. Size[asked'.by] - 1
       /\ asked'.data = << >> \/ Len(asked'.data) = asked'.len
       /\ told' = None
       /\ UNCHANGED units

\* The units of done hold what the request wants, the others what they held.
Do(done) ==
    units' = [units EXCEPT ![asked.by] =
                [u \in DOMAIN @ |-> IF u \in done THEN asked.data[u - asked.from + 1] ELSE @[u]]]

Work == /\ asked # None
        /\ ~IsRead(asked)
        /\ \E done \in SUBSET Span(asked) : Do(done)
        /\ UNCHANGED <<asked, told>>

Read == /\ asked # None /\ IsRead(asked)
        /\ told' = [ok |-> TRUE, data |-> [i \in 1 .. asked.len |-> units[asked.by][asked.from + i - 1]]]
        /\ asked' = None
        /\ UNCHANGED units

Write == /\ asked # None /\ ~IsRead(asked)
         /\ Do(Span(asked))
         /\ told' = [ok |-> TRUE, data |-> << >>]
         /\ asked' = None

Fail == /\ asked # None
        /\ IF IsRead(asked) THEN UNCHANGED units
                            ELSE \E done \in SUBSET Span(asked) : Do(done)
        /\ told' = [ok |-> FALSE, data |-> << >>]
        /\ asked' = None

\* The one who asked has used the answer.
Forget == /\ asked = None /\ told' = None
          /\ UNCHANGED <<units, asked>>

Next == Ask \/ Work \/ Read \/ Write \/ Fail \/ Forget
Spec == Init /\ [][Next]_<<units, asked, told>>
=============================================================================
