---------------------------- MODULE PairingCode ----------------------------
(***************************************************************************)
(* What a pairing code promises: one is out at a time, it buys one device, *)
(* and it does not outlive MaxFailures wrong guesses.                      *)
(***************************************************************************)
EXTENDS Integers

CONSTANTS
  Codes,
  MaxFailures

VARIABLES
  life,     \* of each code: unborn, live, used or dead
  wrong     \* wrong guesses at each code while it was live

Init ==
  /\ life = [c \in Codes |-> "unborn"]
  /\ wrong = [c \in Codes |-> 0]

(* A new code supersedes the one that is out.                              *)
Issue(c) ==
  /\ life[c] = "unborn"
  /\ life' = [x \in Codes |-> IF x = c THEN "live"
                              ELSE IF life[x] = "live" THEN "dead" ELSE life[x]]
  /\ UNCHANGED wrong

Buy(c) ==
  /\ life[c] = "live" /\ life' = [life EXCEPT ![c] = "used"]
  /\ UNCHANGED wrong

Guess(c) ==
  /\ life[c] = "live" /\ wrong[c] < MaxFailures
  /\ wrong' = [wrong EXCEPT ![c] = wrong[c] + 1]
  /\ life' = [life EXCEPT ![c] = IF wrong[c] + 1 = MaxFailures THEN "dead" ELSE "live"]

(* It was typed too late.                                                  *)
Lapse(c) ==
  /\ life[c] = "live" /\ life' = [life EXCEPT ![c] = "dead"]
  /\ UNCHANGED wrong

Next == \E c \in Codes : Issue(c) \/ Buy(c) \/ Guess(c) \/ Lapse(c)

Spec == Init /\ [][Next]_<<life, wrong>>
=============================================================================
