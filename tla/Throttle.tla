------------------------------- MODULE Throttle -------------------------------
(***************************************************************************)
(* The brake on the dashboard's login form (web/security.py, and the login *)
(* handler of web/server.py): after a few wrong passwords an address has   *)
(* to wait, longer each time.  The handler has no await between asking the *)
(* throttle and telling it, so a request is one step.                      *)
(***************************************************************************)
EXTENDS Naturals, Sequences

CONSTANTS
  Client,
  Attempts, Window, Cooldown, MaxCooldown,
  MaxClock, MaxWrong   \* bounds: the clock, and wrong passwords since the last right one

ASSUME ThrottleAssumption ==
  /\ Attempts \in Nat \ {0} /\ Window \in Nat /\ Cooldown \in Nat /\ MaxCooldown \in Nat
  /\ Cooldown <= MaxCooldown
  /\ MaxClock \in Nat /\ MaxWrong \in Nat

VARIABLES
  now,           \* time.monotonic()
  failures,      \* _failures
  blockedUntil,  \* _blocked_until, 0 for none
  cooldown,      \* the next cooldown: what _strikes stands for
  wrong          \* history: when each wrong password since the last right one was looked at

throttleVars == <<now, failures, blockedUntil, cooldown, wrong>>

ThrottleTypeOK ==
  /\ now \in 0 .. MaxClock
  /\ failures \in [Client -> Seq(0 .. MaxClock)]
  /\ blockedUntil \in [Client -> Nat]
  /\ cooldown \in [Client -> Cooldown .. MaxCooldown]
  /\ wrong \in [Client -> Seq(0 .. MaxClock)]

ThrottleInit ==
  /\ now = 0
  /\ failures = [c \in Client |-> <<>>]
  /\ blockedUntil = [c \in Client |-> 0]
  /\ cooldown = [c \in Client |-> Cooldown]
  /\ wrong = [c \in Client |-> <<>>]

-----------------------------------------------------------------------------

Blocked(c) == blockedUntil[c] > now

AtMost(m, n) == IF n < m THEN n ELSE m

\* Doubling with every strike, up to the ceiling.
Doubled(n) == AtMost(MaxCooldown, 2 * n)

\* The failures, this one included, without those at the front that left the window.
Recent(c) ==
  LET all == Append(failures[c], now)
      kept == {i \in 1 .. Len(all) : now - all[i] <= Window}
  IN  SubSeq(all, CHOOSE i \in kept : \A j \in kept : i <= j, Len(all))

\* Mutant: one more try than the constructor says.
OneTooMany(n) == n > Attempts

IsTooMany(n) == n >= Attempts

WrongPassword(c) ==
  /\ ~Blocked(c) /\ Len(wrong[c]) < MaxWrong
  /\ IF IsTooMany(Len(Recent(c)))
       THEN /\ failures' = [failures EXCEPT ![c] = <<>>]
            /\ blockedUntil' = [blockedUntil EXCEPT ![c] = now + cooldown[c]]
            /\ cooldown' = [cooldown EXCEPT ![c] = Doubled(@)]
       ELSE /\ failures' = [failures EXCEPT ![c] = Recent(c)]
            /\ UNCHANGED <<blockedUntil, cooldown>>
  /\ wrong' = [wrong EXCEPT ![c] = Append(@, now)]
  /\ UNCHANGED now

RightPassword(c) ==
  /\ ~Blocked(c)
  /\ failures' = [failures EXCEPT ![c] = <<>>]
  /\ blockedUntil' = [blockedUntil EXCEPT ![c] = 0]
  /\ cooldown' = [cooldown EXCEPT ![c] = Cooldown]
  /\ wrong' = [wrong EXCEPT ![c] = <<>>]
  /\ UNCHANGED now

ThrottleTick ==
  /\ now < MaxClock
  /\ now' = now + 1
  /\ UNCHANGED <<failures, blockedUntil, cooldown, wrong>>

ThrottleNext == ThrottleTick \/ \E c \in Client : WrongPassword(c) \/ RightPassword(c)

ThrottleSpec == ThrottleInit /\ [][ThrottleNext]_throttleVars

-----------------------------------------------------------------------------
(* Properties. *)

\* However the guesses of an address are timed, across cooldowns and the edge of the window:
\* of any Attempts + 1 wrong passwords in a row that were looked at, the last one comes a
\* cooldown after the first, or outside its window (LoginThrottle).
GuessesArePaced ==
  \A c \in Client : \A i \in 1 .. Len(wrong[c]) :
    LET span(n) == wrong[c][i + n] - wrong[c][i]
    IN  i + Attempts <= Len(wrong[c])
          => span(Attempts) >= Cooldown \/ span(Attempts) > Window

-----------------------------------------------------------------------------
(* Why the guesses are paced: together these are inductive. *)

\* The failures kept are the last wrong passwords, and too few to block.
FailuresAreLast(c) ==
  LET k == Len(failures[c])
      n == Len(wrong[c])
  IN  /\ k <= n /\ k < Attempts
      /\ \A i \in 1 .. k : failures[c][i] = wrong[c][n - k + i]

\* One that is no longer kept left the window, or was paid for with a cooldown.
ForgottenIsPaid(c) ==
  \A i \in 1 .. Len(wrong[c]) - Len(failures[c]) :
    \/ now - wrong[c][i] > Window
    \/ wrong[c][i] + Cooldown <= now
    \/ wrong[c][i] + Cooldown <= blockedUntil[c]

ThrottleIInv ==
  /\ ThrottleTypeOK
  /\ \A c \in Client : /\ blockedUntil[c] <= now + MaxCooldown
                       /\ \A i \in 1 .. Len(wrong[c]) : wrong[c][i] <= now
                       /\ FailuresAreLast(c) /\ ForgottenIsPaid(c)
  /\ GuessesArePaced
=============================================================================
