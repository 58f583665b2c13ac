---------------------------- MODULE SerialServer ----------------------------
(***************************************************************************)
(* What lib/queue.js promises to the rest of the library: the C side of    *)
(* node-ext2fs behaves like one server with one line.  A caller joins the  *)
(* end of the line, only the caller at the front is ever answered, and an  *)
(* answered caller may come back.  OpQueue implements this specification.  *)
(***************************************************************************)
EXTENDS Sequences

CONSTANT Callers      \* the awaiting async functions of the program

VARIABLES line,       \* the callers waiting, the one being served first
          answer      \* what each caller was last answered, or "pending"

vars == <<line, answer>>

Answers == {"resolved", "rejected"}

Init == /\ line = <<>>
        /\ answer = [c \in Callers |-> "none"]

Request(c) == /\ answer[c] # "pending"
              /\ line' = Append(line, c)
              /\ answer' = [answer EXCEPT ![c] = "pending"]

Serve == /\ line # <<>>
         /\ line' = Tail(line)
         /\ \E a \in Answers : answer' = [answer EXCEPT ![Head(line)] = a]

Next == Serve \/ \E c \in Callers : Request(c)

Spec == Init /\ [][Next]_vars

=============================================================================
