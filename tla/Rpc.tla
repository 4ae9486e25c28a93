-------------------------------- MODULE Rpc --------------------------------
(***************************************************************************)
(* What internal/ipc promises a caller.  A call is asked once, is run by   *)
(* the daemon at most once, and returns once.  An answer of the daemon     *)
(* ("ok", "err") means that this very call has been run; a failed write    *)
(* ("send") that it never will be; the other errors leave that open.       *)
(***************************************************************************)
EXTENDS Integers

CONSTANTS Gos, Outcomes

VARIABLES
  asked,   \* goroutine -> how many calls it has made
  ran,     \* the calls <<g, n>> that have been run
  answer   \* goroutine -> what its last finished call n returned

Init ==
  /\ asked = [g \in Gos |-> 0]
  /\ ran = {}
  /\ answer \in [Gos -> [n : {0}, out : {"ok"}]]

Ask(g) ==
  /\ answer[g].n = asked[g]
  /\ asked' = [asked EXCEPT ![g] = @ + 1]
  /\ UNCHANGED <<ran, answer>>

Run(g, n) ==
  /\ n \in 1..asked[g]
  /\ <<g, n>> \notin ran
  /\ ~(answer[g].n = n /\ answer[g].out = "send")
  /\ ran' = ran \cup {<<g, n>>}
  /\ UNCHANGED <<asked, answer>>

Answer(g, out) ==
  /\ answer[g].n < asked[g]
  /\ out \in {"ok", "err"} => <<g, asked[g]>> \in ran
  /\ out = "send" => <<g, asked[g]>> \notin ran
  /\ answer' = [answer EXCEPT ![g] = [n |-> asked[g], out |-> out]]
  /\ UNCHANGED <<asked, ran>>

Next ==
  \E g \in Gos :
    \/ Ask(g)
    \/ \E n \in 1..asked[g] : Run(g, n)
    \/ \E out \in Outcomes : Answer(g, out)

Spec == Init /\ [][Next]_<<asked, ran, answer>>
=============================================================================
