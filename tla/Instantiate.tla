------------------------------ MODULE Instantiate ------------------------------
(***************************************************************************)
(* Instantiate (src/theory/quantifiers/instantiate.cpp) for one quantified *)
(* formula, under incremental solving, with the buffer of lemmas of its    *)
(* inference manager, the rounds of QuantifiersEngine::check() and the     *)
(* pushes and pops of the user.                                            *)
(*                                                                         *)
(* An instance passes three caches: the trie of tuples, the buffer of      *)
(* pending lemmas, and the lemmas that were sent.  The first and the last  *)
(* belong to the user context; the buffer is an ordinary vector, sent by   *)
(* each round unless an interruption leaves it (by an exception thrown at  *)
(* a safe point) to whatever flushes or clears it next.  What formulas     *)
(* rewrite to and what is entailed are constants and oracles.              *)
(***************************************************************************)
EXTENDS CDInstMatchTrie

CONSTANTS
  Lemma,         \* the rewritten instances
  TrueLemma,     \* the constant true, which is taken as sent from the start
  Open,          \* not an instance: a body in which variables are left
  BodyOf,        \* BodyOf[p]: what the body rewrites to under the substitution p
  Entailments,   \* the sets of substitutions that a round may find entailed
  Ineligible     \* the terms whose instantiation level is too high

Position == 1 .. Arity
Substitution == UNION {[s -> Term] : s \in SUBSET Position}

Extends(p, q) == DOMAIN q \subseteq DOMAIN p /\ \A i \in DOMAIN q : p[i] = q[i]

\* BodyOf gives each tuple a lemma.
ASSUME BodyAssumption ==
  /\ TrueLemma \in Lemma /\ Open \notin Lemma
  /\ BodyOf \in [Substitution -> Lemma \cup {Open}]
  /\ \A m \in Tuple : BodyOf[m] \in Lemma

\* The rewriter commutes with substitution where no variable is left: what
\* it returns then is what every tuple that extends the substitution gets.
ASSUME RewritingAssumption ==
  \A p \in Substitution, m \in Tuple :
    BodyOf[p] # Open /\ Extends(m, p) => BodyOf[m] = BodyOf[p]

VARIABLES
  phase,     \* "idle": the user's turn; "searching"; "round": in check()
  entailed,  \* the substitutions under which the body is entailed in this round
  pending,   \* d_pendingLem
  sentFrom,  \* the level at which a lemma came to d_lemmasSent and the SAT solver
  failure,   \* if the last call failed: the tuple, and its critical positions
  left       \* not in the code: the lemmas that an interruption left in d_pendingLem

roundVars == <<phase, entailed, pending, sentFrom, failure, left>>
instVars == <<level, validFrom, phase, entailed, pending, sentFrom, failure, left>>

Restricted(m, s) == [i \in s |-> m[i]]

IsEntailed(p) == \E q \in entailed : Extends(p, q)
Sent(l) == sentFrom[l] <= level

InstTypeOK ==
  /\ TypeOK
  /\ phase \in {"idle", "searching", "round"}
  /\ entailed \in SUBSET Substitution
  /\ pending \in SUBSET Lemma
  /\ sentFrom \in [Lemma -> 0 .. Never]
  /\ failure \in SUBSET (Tuple \X SUBSET Position)
  /\ left \in SUBSET Lemma

InstInit ==
  /\ Init
  /\ phase = "idle"
  /\ entailed = {} /\ pending = {} /\ failure = {} /\ left = {}
  /\ sentFrom = [l \in Lemma |-> IF l = TrueLemma THEN 0 ELSE Never]

(* The user, between checks.  A check with assumptions pushes and pops too.*)
InstPush ==
  /\ phase = "idle" /\ Push
  /\ UNCHANGED roundVars

InstPop ==
  /\ phase = "idle" /\ Pop
  /\ sentFrom' = [l \in Lemma |-> IF sentFrom[l] < level THEN sentFrom[l] ELSE Never]
  /\ UNCHANGED <<phase, entailed, pending, failure, left>>

(* presolve() clears what an interrupted check left in the buffer.         *)
CheckSat ==
  /\ phase = "idle" /\ phase' = "searching"
  /\ pending' = {}
  /\ UNCHANGED <<trieVars, entailed, sentFrom, failure, left>>

(* The search ends, without the quantifiers or out of resources.           *)
EndSearch ==
  /\ phase = "searching" /\ phase' = "idle"
  /\ UNCHANGED <<trieVars, entailed, pending, sentFrom, failure, left>>

(* doPendingLemmas(): cacheLemma() keeps a lemma from being sent twice.    *)
(* (The first clears the buffer and sends nothing.)                        *)
DoPendingNothing == pending' = {} /\ UNCHANGED sentFrom

DoPending ==
  /\ sentFrom' = [l \in Lemma |-> IF l \in pending /\ ~ Sent(l) THEN level
                                  ELSE sentFrom[l]]
  /\ pending' = {}

HasSentLemma == \E l \in pending : ~ Sent(l)

(* QuantifiersEngine::check() first flushes what is left in the buffer; if *)
(* anything was sent, that is all.                                         *)
FlushPrevious ==
  /\ phase = "searching" /\ HasSentLemma
  /\ DoPending
  /\ UNCHANGED <<trieVars, phase, entailed, failure, left>>

(* The assertion of another quantified formula flushes the buffer too.     *)
PreRegisterQuantifier ==
  /\ phase # "round"
  /\ DoPending
  /\ UNCHANGED <<trieVars, phase, entailed, failure, left>>

StartRound ==
  /\ phase = "searching" /\ ~ HasSentLemma
  /\ DoPending
  /\ phase' = "round"
  /\ entailed' \in Entailments
  /\ failure' = {}
  /\ UNCHANGED <<trieVars, left>>

(* The modules are through, or in conflict: flush all current lemmas; the  *)
(* search goes on with them or is over.                                    *)
EndRound ==
  /\ phase = "round"
  /\ DoPending
  /\ phase' = IF HasSentLemma THEN "searching" ELSE "idle"
  /\ entailed' = {} /\ failure' = {}
  /\ UNCHANGED <<trieVars, left>>

(* addInstantiation() starts with a safe point: when a limit was reached   *)
(* the exception goes through check() to TheoryEngine, and the SAT solver, *)
(* which is out of budget, answers unknown; after another check, if some   *)
(* theory has used the output channel.                                     *)
Interrupt ==
  /\ phase = "round" /\ phase' \in {"searching", "idle"}
  /\ entailed' = {} /\ failure' = {}
  /\ left' = left \cup pending
  /\ UNCHANGED <<trieVars, pending, sentFrom>>

(* addInstantiation() refuses a tuple before it is recorded.               *)
Refused(m) == IsEntailed(m) \/ \E i \in Position : m[i] \in Ineligible

AddSucceeds(m) ==
  ~ Refused(m) /\ ~ ExistsInstMatch(m) /\ ~ Sent(BodyOf[m])

(* addInstantiationExpFail(): whether the failure of m is explained by the *)
(* terms at the positions s.                                               *)
StillFails(m, s) ==
  IsEntailed(Restricted(m, s)) \/ BodyOf[Restricted(m, s)] = BodyOf[m]

(* The critical positions: revert one after the other to the variable,     *)
(* from the last on, as long as the failure is explained by the rest.      *)
(* (The callers leave expFull at true.)  The second reverts a position     *)
(* for what the others were at the start.                                  *)
FailMaskSeparately(m) == {i \in Position : ~ StillFails(m, Position \ {i})}

FailMask(m) ==
  LET kept[n \in 0 .. Arity] ==
        IF n = 0 THEN Position
        ELSE LET rest == kept[n - 1] \ {Arity + 1 - n}
             IN IF rest # {} /\ StillFails(m, rest) THEN rest ELSE kept[n - 1]
  IN kept[Arity]

(* A tuple is recorded although the lemma turns out to be one that was     *)
(* sent.                                                                   *)
AddInstantiation(m) ==
  /\ phase = "round"
  /\ IF Refused(m) THEN UNCHANGED trieVars ELSE AddInstMatch(m)
  /\ IF AddSucceeds(m)
       THEN pending' = pending \cup {BodyOf[m]} /\ failure' = {}
       ELSE failure' = {<<m, FailMask(m)>>} /\ UNCHANGED pending
  /\ UNCHANGED <<phase, entailed, sentFrom, left>>

InstNext ==
  \/ InstPush \/ InstPop \/ CheckSat \/ EndSearch
  \/ PreRegisterQuantifier \/ FlushPrevious \/ StartRound \/ EndRound \/ Interrupt
  \/ \E m \in Tuple : AddInstantiation(m)

InstSpec == InstInit /\ [][InstNext]_instVars

-------------------------------------------------------------------------------
(* A tuple in the trie is never tried again, so its lemma must be there:   *)
(* in the SAT solver at a level that lasts as long, or about to be sent.   *)
(* ("Get term vectors for all instantiations lemmas added in the current   *)
(* user context", instantiate.h.)                                          *)
InstancesAreSent ==
  \A m \in Tuple : ExistsInstMatch(m) => Sent(BodyOf[m]) \/ BodyOf[m] \in pending

(* That is so unless an interruption left the lemma in the buffer, to be   *)
(* cleared by the next check or sent at a deeper level.                    *)
LostOnlyByInterruption ==
  \A m \in Tuple :
    ExistsInstMatch(m) => \/ Sent(BodyOf[m]) \/ BodyOf[m] \in pending
                         \/ BodyOf[m] \in left

(* What a failure says of other tuples is true of them: if they agree with *)
(* the tuple that failed where it is critical then nothing is lost by      *)
(* skipping them, since their instance is sent, about to be, or entailed.  *)
(* (Not if it failed for the level of a term: a formula that the position  *)
(* of that term does not occur in any more is taken for the reason.)       *)
BringsNothing(m) ==
  \/ Sent(BodyOf[m]) \/ BodyOf[m] \in pending \cup left
  \/ \E n \in Tuple : BodyOf[n] = BodyOf[m] /\ IsEntailed(n)

MasksAreSound ==
  \A f \in failure, m \in Tuple :
    (\A i \in Position : f[1][i] \notin Ineligible /\ (i \in f[2] => m[i] = f[1][i]))
      => BringsNothing(m)
===============================================================================
