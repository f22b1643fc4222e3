---------------------------- MODULE AtomicStore ----------------------------
(***************************************************************************)
(* What a server promises about values it reads and sets at once: a        *)
(* request takes effect at one moment between its being asked and being    *)
(* answered, no more than once, and wholly.  Who is told that an upload    *)
(* succeeded knows that it took effect, who is refused that it did not,    *)
(* and what a read shows is the value at the moment of the answer.  How    *)
(* requests travel, and in how many pieces, is not to be seen.             *)
(***************************************************************************)
CONSTANTS Clients,
          Requests, NoRequest,
          Places,             \* where the values are
          Uploads, Reads,     \* the requests that set, and that show, a value
          Aim,                \* Aim[r]: the place of an upload or a read
          Wanted,             \* Wanted[r]: the values that upload r may leave there
          Initial,            \* the value of each place at first
          NoAnswer, Refusal

VARIABLES value,   \* of each place
          asked,   \* the request each client waits for
          taken,   \* whether it has taken effect
          answer   \* what each client was told last

vars == <<value, asked, taken, answer>>

Init ==
  /\ value = Initial
  /\ asked = [c \in Clients |-> NoRequest]
  /\ taken = [c \in Clients |-> FALSE]
  /\ answer = [c \in Clients |-> NoAnswer]

Tell(c, a) == answer' = [answer EXCEPT ![c] = a]

Ask(c, r) ==
  /\ asked[c] = NoRequest
  /\ asked' = [asked EXCEPT ![c] = r]
  /\ Tell(c, NoAnswer)
  /\ UNCHANGED <<value, taken>>

\* The only step that sets a value.
Take(c) ==
  LET r == asked[c] IN
  /\ r \in Uploads /\ ~taken[c]
  /\ Aim[r] \in Places
  /\ \E v \in Wanted[r] : value' = [value EXCEPT ![Aim[r]] = v]
  /\ taken' = [taken EXCEPT ![c] = TRUE]
  /\ UNCHANGED <<asked, answer>>

Settle(c) ==
  /\ asked' = [asked EXCEPT ![c] = NoRequest]
  /\ taken' = [taken EXCEPT ![c] = FALSE]
  /\ UNCHANGED value

\* What requests that aim elsewhere are told does not matter here.
Grant(c) ==
  LET r == asked[c] IN
  /\ r # NoRequest
  /\ r \in Uploads => taken[c]
  /\ r \in Reads => Aim[r] \in Places /\ answer'[c] = <<value[Aim[r]]>>
  /\ Tell(c, answer'[c])
  /\ Settle(c)

\* Also what was never asked may be refused.
Refuse(c) ==
  /\ ~taken[c]
  /\ Tell(c, Refusal)
  /\ Settle(c)

\* The client goes away.
Leave(c) == Tell(c, NoAnswer) /\ Settle(c)

\* The client turns to what comes next.
Forget(c) == Tell(c, NoAnswer) /\ UNCHANGED <<value, asked, taken>>

Next ==
  \E c \in Clients :
    \/ \E r \in Requests : Ask(c, r)
    \/ Take(c) \/ Grant(c) \/ Refuse(c) \/ Leave(c) \/ Forget(c)

Spec == Init /\ [][Next]_vars
=============================================================================
