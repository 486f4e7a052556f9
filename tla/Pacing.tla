-------------------------------- MODULE Pacing --------------------------------
(***************************************************************************)
(* The request budget of one site (vinted/pacing.py) and the token bucket  *)
(* under it (ratelimit.py), which the senders of a platform share, too.    *)
(* Whoever asks waits in line for the lock of the bucket and, holding it,  *)
(* sleeps until there is a token; a task cancelled meanwhile leaves the    *)
(* line.  Time is counted in ticks; a sleep may last longer than it asked. *)
(***************************************************************************)
EXTENDS Naturals, Sequences

CONSTANTS
  Asker,      \* tasks that make requests
  Spacing,    \* ticks to refill one token: 1 / rate_per_s
  Burst,      \* capacity
  MaxTime,    \* bound: the clock
  MaxGrants   \* bound: requests let through

ASSUME PacingAssumption ==
  /\ Spacing \in Nat \ {0} /\ Burst \in Nat \ {0}
  /\ MaxTime \in Nat /\ MaxGrants \in Nat

VARIABLES
  clock,
  level,      \* _tokens, in ticks worth of refill
  updated,    \* _updated
  line,       \* the lock: its holder, and those who wait for it in their order
  wakeAt,     \* when the sleep of the holder is over, 0 when it is about to look
  grants      \* history: when each request was let through

pacingVars == <<clock, level, updated, line, wakeAt, grants>>

PacingTypeOK ==
  /\ clock \in 0 .. MaxTime
  /\ level \in 0 .. Burst * Spacing
  /\ updated \in 0 .. clock
  /\ line \in Seq(Asker)
  /\ wakeAt \in 0 .. MaxTime + Spacing
  /\ grants \in Seq(0 .. MaxTime)

PacingInit ==
  /\ clock = 0
  /\ level = Burst * Spacing
  /\ updated = 0
  /\ line = <<>>
  /\ wakeAt = 0
  /\ grants = <<>>

InLine(a) == \E i \in 1 .. Len(line) : line[i] = a

AskBudget(a) ==
  /\ ~InLine(a) /\ Len(grants) + Len(line) < MaxGrants
  /\ line' = Append(line, a)
  /\ UNCHANGED <<clock, level, updated, wakeAt, grants>>

\* Mutant: the allowance is not capped.
Overfilled == level + (clock - updated)

Refilled ==
  LET full == Burst * Spacing
  IN  IF level + (clock - updated) > full THEN full ELSE level + (clock - updated)

\* The holder looks: it takes a token and lets the next one look, or it sleeps for what is
\* missing.
LookForToken ==
  /\ line # <<>> /\ wakeAt <= clock
  /\ updated' = clock
  /\ IF Refilled >= Spacing
       THEN /\ level' = Refilled - Spacing
            /\ grants' = Append(grants, clock)
            /\ line' = Tail(line)
            /\ wakeAt' = 0
       ELSE /\ level' = Refilled
            /\ wakeAt' = clock + (Spacing - Refilled)
            /\ UNCHANGED <<line, grants>>
  /\ UNCHANGED clock

\* A search is paused, or its signature changed, while it waits.
CancelAsk(a) ==
  \E i \in 1 .. Len(line) :
    /\ line[i] = a
    /\ line' = SubSeq(line, 1, i - 1) \o SubSeq(line, i + 1, Len(line))
    /\ wakeAt' = IF i = 1 THEN 0 ELSE wakeAt
    /\ UNCHANGED <<clock, level, updated, grants>>

PaceTick ==
  /\ clock < MaxTime
  /\ clock' = clock + 1
  /\ UNCHANGED <<level, updated, line, wakeAt, grants>>

PacingNext ==
  LookForToken \/ PaceTick \/ \E a \in Asker : AskBudget(a) \/ CancelAsk(a)

PacingSpec == PacingInit /\ [][PacingNext]_pacingVars

-----------------------------------------------------------------------------
(* Properties. *)

\* However many searches there are, and whoever leaves the line: in no stretch of time is
\* the site asked more often than the rate allows and one burst on top (RequestBudget).
RateHeld ==
  \A i, j \in 1 .. Len(grants) :
    i <= j => (j - i + 1) * Spacing <= Burst * Spacing + (grants[j] - grants[i])
=============================================================================
