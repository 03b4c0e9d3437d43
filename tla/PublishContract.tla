--------------------------- MODULE PublishContract ---------------------------
(***************************************************************************)
(* What a publishing call promises its caller, whatever the platform, its  *)
(* requests, the retries and the crashes in between: it makes at most one  *)
(* post, and its success names a post that exists, its own if it made one. *)
(***************************************************************************)
EXTENDS Naturals

CONSTANTS Calls, NoAnswer, Failure

VARIABLES
  made,    \* [call -> posts the platforms have made for it]
  answer   \* [call -> the call whose post its success names, Failure or NoAnswer]

ContractInit ==
  /\ made = [c \in Calls |-> 0]
  /\ answer = [c \in Calls |-> NoAnswer]

MakePost(c) ==
  /\ answer[c] = NoAnswer /\ made[c] = 0
  /\ made' = [made EXCEPT ![c] = 1]
  /\ UNCHANGED answer

\* The post it made and the answer "failed" may come in one step.
Fail(S) ==
  /\ \A c \in S : answer[c] = NoAnswer
  /\ answer' = [c \in Calls |-> IF c \in S THEN Failure ELSE answer[c]]
  /\ \/ UNCHANGED made
     \/ \E c \in S : made[c] = 0 /\ made' = [made EXCEPT ![c] = 1]

Succeed(c, d) ==
  /\ answer[c] = NoAnswer
  /\ made[d] = 1 /\ (made[c] = 1 => d = c)
  /\ answer' = [answer EXCEPT ![c] = d]
  /\ UNCHANGED made

ContractNext ==
  \/ \E c \in Calls : MakePost(c) \/ \E d \in Calls : Succeed(c, d)
  \/ \E S \in SUBSET Calls : Fail(S)

ContractSpec == ContractInit /\ [][ContractNext]_<<made, answer>>
=============================================================================
