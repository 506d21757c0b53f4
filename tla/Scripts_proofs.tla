--------------------------- MODULE Scripts_proofs ---------------------------
(***************************************************************************)
(* Theorems about the operations scripts: the one that configures the      *)
(* alert rules (SentryAlerts), for any number of rules, operators, runs,   *)
(* retries and rules deleted by hand; and the tunnel updater               *)
(* (TunnelUpdater), for any number of runs of it, of starts of cloudflared *)
(* and of reads of its log.                                                *)
(***************************************************************************)
EXTENDS SentryAlerts, TunnelUpdater, SequenceTheorems, TLAPS

(***************************************************************************)
(* SentryAlerts.                                                           *)
(***************************************************************************)
TypeOK ==
    /\ remote \in [Rules -> Nat]
    /\ pc \in [Operators -> {"idle", "list", "rules"}]
    /\ attempt \in [Operators -> Nat]
    /\ existing \in [Operators -> SUBSET Rules]
    /\ rule \in [Operators -> 1..(NRules + 1)]
    /\ configured \in [Operators -> Nat]
    /\ exit \in [Operators -> Exits]
    /\ blind \in SUBSET Operators
    /\ resent \in [Operators -> SUBSET Rules]
    /\ since \in [Operators -> SUBSET Rules]
    /\ gone \in [Operators -> SUBSET Rules]

LEMMA TypeInit == Init => TypeOK
<1> SUFFICES ASSUME Init PROVE TypeOK
  OBVIOUS
<1>1. /\ existing \in [Operators -> SUBSET Rules] /\ resent \in [Operators -> SUBSET Rules]
      /\ since \in [Operators -> SUBSET Rules] /\ gone \in [Operators -> SUBSET Rules]
      /\ blind \in SUBSET Operators
  BY DEF Init
<1>2. 1 \in 1..(NRules + 1)
  BY SentryAssumption
<1> QED BY <1>1, <1>2 DEF Init, TypeOK, Exits

(* What the end of a process leaves well-typed. *)
LEMMA ExitType ==
    ASSUME TypeOK, NEW o \in Operators, NEW code \in Exits, Exit(o, code)
    PROVE  /\ pc' \in [Operators -> {"idle", "list", "rules"}]
           /\ attempt' \in [Operators -> Nat]
           /\ existing' \in [Operators -> SUBSET Rules]
           /\ rule' \in [Operators -> 1..(NRules + 1)]
           /\ configured' \in [Operators -> Nat]
           /\ exit' \in [Operators -> Exits]
           /\ blind' \in SUBSET Operators
           /\ resent' \in [Operators -> SUBSET Rules]
<1>1. 1 \in 1..(NRules + 1)
  BY SentryAssumption
<1> QED BY <1>1 DEF TypeOK, Exit

LEMMA TypeStep == TypeOK /\ [Next]_vars => TypeOK'
<1> SUFFICES ASSUME TypeOK, [Next]_vars PROVE TypeOK'
  OBVIOUS
<1> USE SentryAssumption DEF scriptVars, historyVars
<1>0. "none" \in Exits /\ "zero" \in Exits /\ "one" \in Exits
  BY DEF Exits
<1>1. ASSUME NEW o \in Operators, NEW t \in BOOLEAN, Start(o, t) PROVE TypeOK'
  BY <1>0, <1>1 DEF Start, TypeOK
<1>2. ASSUME NEW o \in Operators, NEW x \in Outcomes, ExistingRuleNames(o, x) PROVE TypeOK'
  <2>1. CASE Exit(o, "one")
    BY <1>0, <1>2, <2>1, ExitType DEF ExistingRuleNames, TypeOK
  <2>2. CASE ~Exit(o, "one")
    <3>1. Listing(o, x) \in SUBSET Rules
      BY DEF Listing
    <3> QED BY <1>2, <2>2, <3>1 DEF ExistingRuleNames, Again, NextRequest, TypeOK
  <2> QED BY <2>1, <2>2
<1>3. ASSUME NEW o \in Operators, SkipRule(o) PROVE TypeOK'
  <2>1. /\ rule[o] \in 1..(NRules + 1) /\ rule[o] # NRules + 1
        /\ configured[o] \in Nat
    BY <1>3 DEF SkipRule, Rules, TypeOK
  <2>2. rule[o] + 1 \in 1..(NRules + 1) /\ configured[o] + 1 \in Nat
    BY <2>1
  <2>3. /\ rule' = [rule EXCEPT ![o] = rule[o] + 1]
        /\ configured' = [configured EXCEPT ![o] = configured[o] + 1]
    BY <1>3 DEF SkipRule, Advance
  <2>4. rule' \in [Operators -> 1..(NRules + 1)] /\ configured' \in [Operators -> Nat]
    BY <2>2, <2>3 DEF TypeOK
  <2> QED BY <1>3, <2>4 DEF SkipRule, TypeOK
<1>4. ASSUME NEW o \in Operators, NEW x \in Outcomes, NEW applied \in BOOLEAN,
             CreateRule(o, x, applied)
      PROVE  TypeOK'
  <2>1. rule[o] \in Rules /\ UNCHANGED gone
    BY <1>4 DEF CreateRule
  <2>2. remote' \in [Rules -> Nat]
    BY <1>4, <2>1 DEF CreateRule, TypeOK
  <2>3. since' \in [Operators -> SUBSET Rules]
    <3>1. CreatedBy(o, rule[o], applied) \in [Operators -> SUBSET Rules]
      BY <2>1 DEF CreatedBy, TypeOK
    <3> QED BY <1>4, <3>1 DEF CreateRule
  <2>4. CASE Exit(o, "one")
    BY <1>0, <2>1, <2>2, <2>3, <2>4, ExitType DEF TypeOK
  <2>5. CASE ~Exit(o, "one")
    <3>1. \/ /\ Again(o)
             /\ resent' = IF applied THEN [resent EXCEPT ![o] = @ \cup {rule[o]}] ELSE resent
             /\ UNCHANGED <<pc, existing, rule, configured, exit, blind>>
          \/ /\ NextRequest(o)
             /\ Advance(o, x = "ok")
             /\ UNCHANGED <<pc, existing, exit, blind, resent>>
      BY <1>4, <2>5 DEF CreateRule
    <3>2. resent' \in [Operators -> SUBSET Rules]
      BY <2>1, <3>1 DEF TypeOK
    <3>3. rule' \in [Operators -> 1..(NRules + 1)] /\ configured' \in [Operators -> Nat]
      <4>1. rule[o] + 1 \in 1..(NRules + 1) /\ configured[o] + 1 \in Nat /\ configured[o] + 0 \in Nat
        BY <2>1 DEF Rules, TypeOK
      <4>2. \/ UNCHANGED <<rule, configured>>
            \/ /\ rule' = [rule EXCEPT ![o] = rule[o] + 1]
               /\ \/ configured' = [configured EXCEPT ![o] = configured[o] + 1]
                  \/ configured' = [configured EXCEPT ![o] = configured[o] + 0]
        BY <3>1 DEF Advance
      <4> QED BY <4>1, <4>2 DEF TypeOK
    <3> QED BY <2>1, <2>2, <2>3, <3>1, <3>2, <3>3 DEF Again, NextRequest, TypeOK
  <2> QED BY <2>4, <2>5
<1>5. ASSUME NEW o \in Operators, Finish(o) \/ Kill(o) PROVE TypeOK'
  <2>1. \E code \in Exits : Exit(o, code)
    BY <1>0, <1>5 DEF Finish, Kill
  <2> QED BY <1>5, <2>1, ExitType DEF Finish, Kill, TypeOK
<1>6. ASSUME NEW r \in Rules, DeleteByHand(r) PROVE TypeOK'
  <2>1. remote' \in [Rules -> Nat]
    BY <1>6 DEF DeleteByHand, TypeOK
  <2>2. gone' \in [Operators -> SUBSET Rules]
    BY <1>6 DEF DeleteByHand, TypeOK
  <2> QED BY <1>6, <2>1, <2>2 DEF DeleteByHand, TypeOK
<1>7. CASE UNCHANGED vars
  BY <1>7 DEF vars, TypeOK
<1> QED BY <1>1, <1>2, <1>3, <1>4, <1>5, <1>6, <1>7 DEF Next, Step

----------------------------------------------------------------------------
(* What a step does to the rules: one request creates at most one rule,    *)
(* and a rule disappears by hand only.                                     *)
LEMMA RemoteStep ==
    ASSUME TypeOK, [Next]_vars, NEW r \in Rules
    PROVE  \/ remote'[r] >= remote[r]
           \/ \A o \in Operators :
                 remote'[r] > 0 \/ r \in gone'[o] \/ (pc[o] = "idle" /\ exit[o] # "zero")
<1> USE DEF scriptVars, historyVars
<1>1. ASSUME NEW q \in Rules, DeleteByHand(q)
      PROVE  \/ remote'[r] >= remote[r]
             \/ \A o \in Operators :
                   remote'[r] > 0 \/ r \in gone'[o] \/ (pc[o] = "idle" /\ exit[o] # "zero")
  BY <1>1 DEF DeleteByHand, TypeOK
<1>2. ASSUME NEW o \in Operators, NEW x, NEW applied, CreateRule(o, x, applied)
      PROVE  remote'[r] >= remote[r]
  BY <1>2 DEF CreateRule, TypeOK
<1>3. CASE UNCHANGED remote
  BY <1>3 DEF TypeOK
<1>4. \/ UNCHANGED remote
      \/ \E q \in Rules : DeleteByHand(q)
      \/ \E o \in Operators, x \in Outcomes, applied \in BOOLEAN : CreateRule(o, x, applied)
  BY DEF Next, Step, Start, ExistingRuleNames, SkipRule, Finish, Kill, vars
<1> QED BY <1>1, <1>2, <1>3, <1>4

----------------------------------------------------------------------------
(* Exit code 0.  A rule that a running script has found or created, or     *)
(* that one that ended well has, exists or was deleted since the start; no *)
(* more rules are counted than were tried, and if none failed, all of      *)
(* those tried are there.                                                  *)
Sound(o, r) == remote[r] > 0 \/ r \in gone[o]

Counted(o) ==
    /\ pc[o] # "idle" => exit[o] = "none"
    /\ pc[o] # "rules" => rule[o] = 1 /\ configured[o] = 0
    /\ configured[o] < rule[o]
    /\ pc[o] = "rules" => \A r \in existing[o] : Sound(o, r)
    /\ pc[o] = "rules" /\ configured[o] + 1 = rule[o] =>
          \A r \in Rules : r < rule[o] => Sound(o, r)
    /\ exit[o] = "zero" => \A r \in Rules : Sound(o, r)

ExitInv == TypeOK /\ \A o \in Operators : Counted(o)

(* A script, or its exit code, that a step leaves alone. *)
LEMMA CountedFrame ==
    ASSUME ExitInv, [Next]_vars, NEW o \in Operators, gone[o] \subseteq gone'[o],
           pc'[o] = pc[o], exit'[o] = exit[o], rule'[o] = rule[o],
           configured'[o] = configured[o], existing'[o] = existing[o]
    PROVE  Counted(o)'
<1>0. TypeOK /\ Counted(o)
  BY DEF ExitInv
<1>1. ASSUME NEW r \in Rules, Sound(o, r), pc[o] # "idle" \/ exit[o] = "zero"
      PROVE  Sound(o, r)'
  <2>1. remote[r] \in Nat /\ remote'[r] \in Nat
    BY <1>0, TypeStep DEF TypeOK
  <2> QED BY <1>0, <1>1, <2>1, RemoteStep DEF Sound
<1>2. existing[o] \subseteq Rules
  BY <1>0 DEF TypeOK
<1> QED BY <1>0, <1>1, <1>2 DEF Counted

(* The end of a process that does not end well. *)
LEMMA CountedExit ==
    ASSUME TypeOK, NEW o \in Operators, Exit(o, "one")
    PROVE  Counted(o)'
BY DEF Exit, Counted, TypeOK

LEMMA ExitStep == ExitInv /\ [Next]_vars => ExitInv'
<1> SUFFICES ASSUME ExitInv, [Next]_vars PROVE ExitInv'
  OBVIOUS
<1>0. TypeOK /\ TypeOK' /\ \A o \in Operators : Counted(o)
  BY TypeStep DEF ExitInv
<1> USE <1>0 DEF scriptVars, historyVars
<1>f. ASSUME NEW o \in Operators,
             \A p \in Operators \ {o} :
                /\ gone[p] \subseteq gone'[p] /\ pc'[p] = pc[p] /\ exit'[p] = exit[p]
                /\ rule'[p] = rule[p] /\ configured'[p] = configured[p]
                /\ existing'[p] = existing[p],
             Counted(o)'
      PROVE  ExitInv'
  <2>1. \A p \in Operators \ {o} : Counted(p)'
    BY <1>f, CountedFrame
  <2> QED BY <1>f, <2>1 DEF ExitInv
<1>1. ASSUME NEW o \in Operators, NEW t \in BOOLEAN, Start(o, t) PROVE ExitInv'
  <2>1. Counted(o)'
    BY <1>1 DEF Start, Counted, TypeOK
  <2> QED BY <1>1, <1>f, <2>1 DEF Start, TypeOK
<1>2. ASSUME NEW o \in Operators, NEW x \in Outcomes, ExistingRuleNames(o, x) PROVE ExitInv'
  <2>1. CASE Exit(o, "one")
    <3>1. Counted(o)'
      BY <2>1, CountedExit
    <3> QED BY <1>2, <1>f, <2>1, <3>1 DEF ExistingRuleNames, Exit, TypeOK
  <2>2. CASE UNCHANGED <<pc, existing, rule, configured, exit>>
    <3>1. Counted(o)'
      BY <1>2, <2>2, CountedFrame DEF ExistingRuleNames
    <3> QED BY <1>2, <1>f, <2>2, <3>1 DEF ExistingRuleNames
  <2>3. CASE /\ pc' = [pc EXCEPT ![o] = "rules"]
             /\ existing' = [existing EXCEPT ![o] = Listing(o, x)]
             /\ UNCHANGED <<rule, configured, exit>>
    <3>1. /\ pc[o] = "list" /\ UNCHANGED <<remote, gone>>
          /\ \A r \in Listing(o, x) : remote[r] > 0
      BY <1>2 DEF ExistingRuleNames, Listing
    <3>2. rule[o] = 1 /\ configured[o] = 0 /\ exit[o] = "none"
      BY <3>1 DEF Counted
    <3>3. \A r \in Rules : ~(r < 1)
      BY DEF Rules
    <3>4. Counted(o)'
      BY <2>3, <3>1, <3>2, <3>3 DEF Counted, Sound, TypeOK
    <3> QED BY <1>f, <2>3, <3>1, <3>4 DEF TypeOK
  <2> QED BY <1>2, <2>1, <2>2, <2>3 DEF ExistingRuleNames
<1>3. ASSUME NEW o \in Operators, SkipRule(o) PROVE ExitInv'
  <2>1. /\ pc[o] = "rules" /\ rule[o] \in existing[o]
        /\ rule' = [rule EXCEPT ![o] = rule[o] + 1]
        /\ configured' = [configured EXCEPT ![o] = configured[o] + 1]
        /\ UNCHANGED <<remote, gone, pc, existing, exit>>
    BY <1>3 DEF SkipRule, Skips, Advance
  <2>2. rule[o] \in Nat /\ configured[o] \in Nat /\ Rules \subseteq Nat
    BY SentryAssumption DEF TypeOK, Rules
  <2>3. \A r \in Rules : r < rule[o] + 1 => r < rule[o] \/ r = rule[o]
    BY <2>2
  <2>4. Counted(o)'
    BY <2>1, <2>2, <2>3 DEF Counted, Sound, TypeOK
  <2> QED BY <1>f, <2>1, <2>4 DEF TypeOK
<1>4. ASSUME NEW o \in Operators, NEW x \in Outcomes, NEW applied \in BOOLEAN,
             CreateRule(o, x, applied)
      PROVE  ExitInv'
  <2>0. gone' = gone
    BY <1>4 DEF CreateRule
  <2>1. CASE Exit(o, "one")
    <3>1. Counted(o)'
      BY <2>1, CountedExit
    <3> QED BY <1>f, <2>0, <2>1, <3>1 DEF Exit, TypeOK
  <2>2. CASE UNCHANGED <<pc, existing, rule, configured, exit>>
    <3>1. Counted(o)'
      BY <2>0, <2>2, CountedFrame
    <3> QED BY <1>f, <2>0, <2>2, <3>1
  <2>3. CASE Advance(o, x = "ok") /\ UNCHANGED <<pc, existing, exit>>
    <3>1. /\ pc[o] = "rules" /\ rule[o] \in Rules
          /\ rule' = [rule EXCEPT ![o] = rule[o] + 1]
          /\ \/ x = "ok" /\ configured' = [configured EXCEPT ![o] = configured[o] + 1]
             \/ x # "ok" /\ configured' = [configured EXCEPT ![o] = configured[o] + 0]
      BY <1>4, <2>3 DEF CreateRule, Advance
    <3>2. x = "ok" => remote'[rule[o]] > 0
      <4> SUFFICES ASSUME x = "ok" PROVE remote'[rule[o]] > 0
        OBVIOUS
      <4>1. applied
        BY <1>4 DEF CreateRule, Applied
      <4> QED BY <1>4, <3>1, <4>1 DEF CreateRule, TypeOK
    <3>3. \A r \in Rules : remote'[r] >= remote[r]
      BY <1>4 DEF CreateRule, TypeOK
    <3>4. \A r \in Rules : Sound(o, r) => Sound(o, r)'
      BY <2>0, <3>3 DEF Sound, TypeOK
    <3>5. rule[o] \in Nat /\ configured[o] \in Nat /\ Rules \subseteq Nat
      BY SentryAssumption DEF TypeOK, Rules
    <3>6. \A r \in Rules : r < rule[o] + 1 => r < rule[o] \/ r = rule[o]
      BY <3>5
    <3>7. configured[o] < rule[o] /\ exit[o] = "none" /\ existing[o] \subseteq Rules
      BY <3>1 DEF Counted, TypeOK
    <3>8. CASE x = "ok"
      <4>1. \A r \in Rules : r = rule[o] => Sound(o, r)'
        BY <3>2, <3>8 DEF Sound
      <4>2. /\ pc'[o] = "rules" /\ exit'[o] = "none" /\ existing'[o] = existing[o]
            /\ rule'[o] = rule[o] + 1 /\ configured'[o] = configured[o] + 1
        BY <2>3, <3>1, <3>7, <3>8 DEF TypeOK
      <4>3. \A r \in existing[o] : Sound(o, r)'
        BY <3>1, <3>4, <3>7 DEF Counted
      <4>4. configured[o] + 1 = rule[o] => \A r \in Rules : r < rule[o] + 1 => Sound(o, r)'
        BY <3>1, <3>4, <3>6, <4>1 DEF Counted
      <4>5. Counted(o)'
        BY <3>5, <3>7, <4>2, <4>3, <4>4 DEF Counted
      <4> QED BY <1>f, <2>0, <2>3, <3>1, <4>5 DEF TypeOK
    <3>9. CASE x # "ok"
      <4>1. /\ pc'[o] = "rules" /\ exit'[o] = "none" /\ existing'[o] = existing[o]
            /\ rule'[o] = rule[o] + 1 /\ configured'[o] = configured[o]
        BY <2>3, <3>1, <3>5, <3>7, <3>9 DEF TypeOK
      <4>2. \A r \in existing[o] : Sound(o, r)'
        BY <3>1, <3>4, <3>7 DEF Counted
      <4>3. Counted(o)'
        BY <3>5, <3>7, <4>1, <4>2 DEF Counted
      <4> QED BY <1>f, <2>0, <2>3, <3>1, <4>3 DEF TypeOK
    <3> QED BY <3>8, <3>9
  <2> QED BY <1>4, <2>1, <2>2, <2>3 DEF CreateRule
<1>5. ASSUME NEW o \in Operators, Finish(o) PROVE ExitInv'
  <2>1. /\ pc[o] = "rules" /\ rule[o] > NRules /\ UNCHANGED <<remote, gone>>
        /\ Exit(o, IF configured[o] = NRules THEN "zero" ELSE "one")
    BY <1>5 DEF Finish
  <2>2. Counted(o)'
    <3>1. CASE configured[o] # NRules
      BY <2>1, <3>1, CountedExit
    <3>2. CASE configured[o] = NRules
      <4>1. rule[o] = NRules + 1
        BY <2>1, SentryAssumption DEF TypeOK
      <4>2. \A r \in Rules : r < rule[o]
        BY <4>1, SentryAssumption DEF Rules
      <4>3. \A r \in Rules : Sound(o, r)
        BY <2>1, <3>2, <4>1, <4>2 DEF Counted
      <4>4. \A r \in Rules : Sound(o, r)'
        BY <2>1, <4>3 DEF Sound
      <4> QED BY <2>1, <3>2, <4>4 DEF Exit, Counted, TypeOK
    <3> QED BY <3>1, <3>2
  <2> QED BY <1>f, <2>1, <2>2 DEF Exit, TypeOK
<1>6. ASSUME NEW o \in Operators, Kill(o) PROVE ExitInv'
  <2>1. Counted(o)'
    BY <1>6, CountedExit DEF Kill
  <2> QED BY <1>6, <1>f, <2>1 DEF Kill, Exit, TypeOK
<1>7. CASE (\E r \in Rules : DeleteByHand(r)) \/ UNCHANGED vars
  <2>1. /\ UNCHANGED <<pc, existing, rule, configured, exit>>
        /\ \A o \in Operators : gone[o] \subseteq gone'[o]
    BY <1>7 DEF DeleteByHand, vars
  <2> QED BY <2>1, CountedFrame DEF ExitInv
<1> QED BY <1>1, <1>2, <1>3, <1>4, <1>5, <1>6, <1>7 DEF Next, Step

(* When the script exits with 0, every rule is configured, or was deleted  *)
(* by hand since the script was started, whatever other runs and lost      *)
(* answers did meanwhile.                                                  *)
THEOREM ZeroIsTrue == Spec => []ExitZeroMeansConfigured
<1>1. Init => ExitInv
  BY TypeInit DEF Init, ExitInv, Counted
<1>2. ExitInv => ExitZeroMeansConfigured
  BY DEF ExitInv, Counted, Sound, ExitZeroMeansConfigured
<1> QED BY <1>1, <1>2, ExitStep, PTL DEF Spec

----------------------------------------------------------------------------
(* Duplicates.  A rule that a script has still to create, and that exists, *)
(* exists because the script saw nothing, sent its request before, or      *)
(* another run has created the rule since.                                 *)
Excused(o) ==
    pc[o] = "rules" => \A r \in Rules \ existing[o] :
        r >= rule[o] /\ remote[r] > 0 => o \in blind \/ r \in resent[o] \/ r \in since[o]

DupInv == TypeOK /\ \A o \in Operators : Excused(o)

LEMMA DupStep == DupInv /\ [Next]_vars => DupInv'
<1> SUFFICES ASSUME DupInv, [Next]_vars PROVE DupInv'
  OBVIOUS
<1>0. TypeOK /\ TypeOK' /\ \A o \in Operators : Excused(o)
  BY TypeStep DEF DupInv
<1>n. Rules \subseteq Nat /\ \A o \in Operators : rule[o] \in Nat /\ existing[o] \subseteq Rules
  BY <1>0, SentryAssumption DEF Rules, TypeOK
<1> USE <1>0 DEF scriptVars, historyVars
<1>f. ASSUME NEW o \in Operators,
             \A p \in Operators \ {o} :
                /\ pc'[p] = pc[p] /\ rule'[p] = rule[p] /\ existing'[p] = existing[p]
                /\ p \in blind => p \in blind'
                /\ resent'[p] = resent[p] /\ since[p] \subseteq since'[p]
                /\ \A r \in Rules : pc[p] = "rules" =>
                      remote'[r] <= remote[r] \/ r \in since'[p],
             Excused(o)'
      PROVE  DupInv'
  <2>1. ASSUME NEW p \in Operators \ {o}, pc'[p] = "rules",
               NEW r \in Rules \ existing'[p], r >= rule'[p], remote'[r] > 0
        PROVE  p \in blind' \/ r \in resent'[p] \/ r \in since'[p]
    <3>1. CASE remote'[r] <= remote[r]
      <4>1. remote[r] > 0
        BY <2>1, <3>1 DEF TypeOK
      <4> QED BY <1>f, <2>1, <4>1 DEF Excused
    <3> QED BY <1>f, <2>1, <3>1
  <2>2. \A p \in Operators \ {o} : Excused(p)'
    BY <2>1 DEF Excused
  <2> QED BY <1>f, <2>2 DEF DupInv
<1>e. ASSUME NEW o \in Operators, pc'[o] # "rules" PROVE Excused(o)'
  BY <1>e DEF Excused
<1>1. ASSUME NEW o \in Operators, NEW t \in BOOLEAN, Start(o, t) PROVE DupInv'
  BY <1>1, <1>e, <1>f DEF Start, TypeOK
<1>2. ASSUME NEW o \in Operators, NEW x \in Outcomes, ExistingRuleNames(o, x) PROVE DupInv'
  <2>1. CASE Exit(o, "one")
    BY <1>2, <1>e, <1>f, <2>1 DEF ExistingRuleNames, Exit, TypeOK
  <2>2. CASE ~Exit(o, "one")
    <3>1. Excused(o)'
      BY <1>2, <2>2 DEF ExistingRuleNames, Listing, Excused, TypeOK
    <3>2. /\ UNCHANGED <<remote, since, rule, resent>>
          /\ \A p \in Operators \ {o} : /\ pc'[p] = pc[p] /\ existing'[p] = existing[p]
                                        /\ p \in blind => p \in blind'
      BY <1>2, <2>2 DEF ExistingRuleNames, TypeOK
    <3> QED BY <1>f, <3>1, <3>2 DEF TypeOK
  <2> QED BY <2>1, <2>2
<1>3. ASSUME NEW o \in Operators, SkipRule(o) PROVE DupInv'
  <2>1. Excused(o)'
    BY <1>3, <1>n DEF SkipRule, Advance, Excused, TypeOK
  <2> QED BY <1>3, <1>f, <2>1 DEF SkipRule, Advance, TypeOK
<1>4. ASSUME NEW o \in Operators, NEW x \in Outcomes, NEW applied \in BOOLEAN,
             CreateRule(o, x, applied)
      PROVE  DupInv'
  <2> DEFINE r == rule[o]
  <2>1. /\ pc[o] = "rules" /\ r \in Rules /\ r \notin existing[o]
        /\ remote' = IF applied THEN [remote EXCEPT ![r] = @ + 1] ELSE remote
    BY <1>4 DEF CreateRule, Skips
  <2>2. \A p \in Operators \ {o} : since'[p] = CreatedBy(o, r, applied)[p]
    BY <1>4 DEF CreateRule, TypeOK
  <2>3. ASSUME NEW p \in Operators \ {o}
        PROVE  /\ since[p] \subseteq since'[p]
               /\ \A q \in Rules : pc[p] = "rules" => remote'[q] <= remote[q] \/ q \in since'[p]
    <3>1. since'[p] = IF ~applied \/ pc[p] # "rules" THEN since[p] ELSE since[p] \cup {r}
      BY <2>2, <2>3 DEF CreatedBy
    <3> QED BY <2>1, <3>1 DEF TypeOK
  <2>4. \A p \in Operators \ {o} :
           /\ pc'[p] = pc[p] /\ rule'[p] = rule[p] /\ existing'[p] = existing[p]
           /\ p \in blind => p \in blind'
           /\ resent'[p] = resent[p]
    BY <1>4 DEF CreateRule, Exit, Again, NextRequest, Advance, TypeOK
  <2>5. Excused(o)'
    <3>1. CASE Exit(o, "one")
      BY <1>e, <3>1 DEF Exit, TypeOK
    <3>2. CASE ~Exit(o, "one")
      <4>1. x # "garbled" /\ since'[o] = CreatedBy(o, r, applied)[o]
        BY <1>4, <3>2 DEF CreateRule, Retries, TypeOK
      <4>2. since'[o] = since[o]
        BY <4>1 DEF CreatedBy
      <4>3. UNCHANGED <<pc, existing, blind>>
        BY <1>4, <3>2 DEF CreateRule
      <4>4. \/ /\ rule' = rule
               /\ resent' = IF applied THEN [resent EXCEPT ![o] = @ \cup {r}] ELSE resent
            \/ rule' = [rule EXCEPT ![o] = r + 1] /\ resent' = resent
        BY <1>4, <3>2 DEF CreateRule, Advance
      <4>5. \A q \in Rules : q >= r + 1 => q >= r /\ q # r
        BY <1>n
      <4> QED BY <2>1, <4>2, <4>3, <4>4, <4>5 DEF Excused, TypeOK
    <3> QED BY <3>1, <3>2
  <2> QED BY <1>f, <2>3, <2>4, <2>5
<1>5. ASSUME NEW o \in Operators, Finish(o) \/ Kill(o) PROVE DupInv'
  BY <1>5, <1>e, <1>f DEF Finish, Kill, Exit, TypeOK
<1>6. ASSUME NEW q \in Rules, DeleteByHand(q) PROVE DupInv'
  <2>1. \A r \in Rules : remote'[r] <= remote[r]
    BY <1>6 DEF DeleteByHand, TypeOK
  <2> QED BY <1>6, <2>1 DEF DeleteByHand, DupInv, Excused, TypeOK
<1>7. CASE UNCHANGED vars
  BY <1>7 DEF vars, DupInv, Excused
<1> QED BY <1>1, <1>2, <1>3, <1>4, <1>5, <1>6, <1>7 DEF Next, Step

(* The script creates a rule a second time only when it could not list the *)
(* rules, when it sends a request again, or when another run was faster.   *)
THEOREM DuplicatesAreKnown == Spec => OnlyKnownDuplicates
<1> DEFINE Known(o) ==
      LET r == rule[o]
      IN  /\ pc[o] = "rules" /\ r \in Rules
          /\ remote'[r] > remote[r] /\ remote[r] > 0
          /\ attempt'[o] # attempt[o] \/ rule'[o] # r \/ pc'[o] # pc[o]
          => o \in blind \/ r \in resent[o] \/ r \in since[o]
<1>1. DupInv /\ [Next]_vars => [\A o \in Operators : Known(o)]_vars
  <2> SUFFICES ASSUME DupInv, Next, NEW o \in Operators,
                      pc[o] = "rules", rule[o] \in Rules,
                      remote'[rule[o]] > remote[rule[o]], remote[rule[o]] > 0,
                      attempt'[o] # attempt[o] \/ rule'[o] # rule[o] \/ pc'[o] # pc[o]
               PROVE  o \in blind \/ rule[o] \in resent[o] \/ rule[o] \in since[o]
    OBVIOUS
  <2>0. TypeOK /\ Excused(o) /\ rule[o] \in Nat
    BY SentryAssumption DEF DupInv, Rules, TypeOK
  <2>1. CASE \E x \in Outcomes, applied \in BOOLEAN : CreateRule(o, x, applied)
    BY <2>0, <2>1 DEF CreateRule, Skips, Excused
  <2>2. ASSUME NEW p \in Operators \ {o}, NEW x, NEW applied, CreateRule(p, x, applied)
        PROVE  FALSE
    BY <2>0, <2>2 DEF CreateRule, Exit, Again, NextRequest, Advance, TypeOK
  <2>3. CASE UNCHANGED remote
    BY <2>0, <2>3 DEF TypeOK
  <2>4. ASSUME NEW q \in Rules, DeleteByHand(q) PROVE FALSE
    BY <2>0, <2>4 DEF DeleteByHand, TypeOK
  <2>5. \/ UNCHANGED remote
        \/ \E q \in Rules : DeleteByHand(q)
        \/ \E p \in Operators, x \in Outcomes, applied \in BOOLEAN : CreateRule(p, x, applied)
    BY DEF Next, Step, Start, ExistingRuleNames, SkipRule, Finish, Kill
  <2> QED BY <2>1, <2>2, <2>3, <2>4, <2>5
<1>2. Init => DupInv
  BY TypeInit DEF Init, DupInv, Excused
<1> HIDE DEF Known
<1>3. Spec => [][\A o \in Operators : Known(o)]_vars
  BY <1>1, <1>2, DupStep, PTL DEF Spec
<1> QED BY <1>3, Zenon DEF Known, OnlyKnownDuplicates

(***************************************************************************)
(* TunnelUpdater.                                                          *)
(***************************************************************************)
(* A log that was not kept over a start holds the running tunnel at most.  *)
LogFresh ==
    ~appended => log = <<>> \/ (announced /\ log = <<live>>)

(* A run begun since the last start of cloudflared has found that tunnel,  *)
(* or a foreign one, and it has found one when it puts it.                 *)
FoundFresh ==
    \A u \in Updaters \ before :
        at[u] # "start" => appended \/ url[u] \in {NoURL, live, Foreign}

PutsFound == \A u \in Updaters : at[u] = "put" => url[u] # NoURL

(* What the proxy reads was put by a run that has begun. *)
WriterBegun == writer # NoUpdater => writer \in Updaters /\ at[writer] # "start"

WriterFresh ==
    writer \notin before /\ writer # NoUpdater => appended \/ kv \in {live, Foreign}

PublishedWritten == published # {} => writer # NoUpdater

TunnelTypes == /\ at \in [Updaters -> {"start", "log", "put", "end"}]
               /\ url \in [Updaters -> 0..Foreign]
               /\ before \in SUBSET Updaters
               /\ live \in 0..Foreign /\ log \in Seq(0..Foreign)

TunnelInv == /\ TunnelTypes
             /\ LogFresh
             /\ FoundFresh
             /\ PutsFound
             /\ WriterBegun
             /\ WriterFresh
             /\ PublishedWritten

LEMMA TunnelInitial == TunnelInit => TunnelInv
BY TunnelAssumption
   DEF TunnelInit, TunnelInv, TunnelTypes, LogFresh, FoundFresh, PutsFound, WriterBegun,
       WriterFresh, PublishedWritten, NoURL, Foreign

(* A run goes on with what it has found. *)
LEMMA FoundStep ==
    ASSUME TunnelInv, NEW u \in Updaters, NEW found \in 0..Foreign, Found(u, found),
           u \in before \/ appended \/ found \in {NoURL, live, Foreign},
           UNCHANGED <<cloudflaredVars, kv, published, writer>>
    PROVE  TunnelInv'
<1> USE DEF TunnelInv, TunnelTypes, Found, Go, cloudflaredVars
<1>1. TunnelTypes' /\ LogFresh' /\ WriterFresh' /\ PublishedWritten'
  BY DEF LogFresh, WriterFresh, PublishedWritten
<1>2. FoundFresh'
  BY DEF FoundFresh
<1>3. PutsFound' /\ WriterBegun'
  BY DEF PutsFound, WriterBegun
<1> QED BY <1>1, <1>2, <1>3

LEMMA TunnelStep == TunnelInv /\ [TunnelNext]_tunnelVars => TunnelInv'
<1> SUFFICES ASSUME TunnelInv, [TunnelNext]_tunnelVars PROVE TunnelInv'
  OBVIOUS
<1> USE TunnelAssumption DEF TunnelInv, TunnelTypes, cloudflaredVars
<1>1. ASSUME NEW u \in Updaters, NEW found \in 0..Foreign, ReadMetrics(u, found)
      PROVE  TunnelInv'
  <2>1. found \in {NoURL, live, Foreign}
    BY <1>1 DEF ReadMetrics
  <2> QED BY <1>1, <2>1, FoundStep DEF ReadMetrics
<1>2. ASSUME NEW u \in Updaters, NEW readable \in BOOLEAN, ReadLog(u, readable)
      PROVE  TunnelInv'
  <2> DEFINE found == IF readable THEN ExtractTunnelURL ELSE NoURL
  <2>1. at[u] = "log" /\ Found(u, found) /\ UNCHANGED <<cloudflaredVars, kv, published, writer>>
    BY <1>2 DEF ReadLog
  <2>2. log # <<>> => Head(log) \in 0..Foreign
    BY HeadTailProperties
  <2>3. found \in 0..Foreign
    BY <2>2 DEF ExtractTunnelURL, NoURL, Foreign
  <2>4. appended \/ found \in {NoURL, live, Foreign}
    BY DEF LogFresh, ExtractTunnelURL
  <2> QED BY <2>1, <2>3, <2>4, FoundStep
<1>3. ASSUME NEW u \in Updaters, NEW outcome \in {"200", "2xx", "error"},
             NEW applied \in BOOLEAN, UpdateKV(u, outcome, applied)
      PROVE  TunnelInv'
  <2>1. /\ at[u] = "put" /\ UNCHANGED <<cloudflaredVars, url>>
        /\ kv' = IF applied THEN url[u] ELSE kv
        /\ writer' = IF applied THEN u ELSE writer
        /\ at' = [at EXCEPT ![u] = at'[u]] /\ at'[u] \in {"log", "end"}
        /\ published' = published \/ applied
    BY <1>3 DEF UpdateKV, AfterPut, Go
  <2>2. TunnelTypes' /\ LogFresh' /\ FoundFresh' /\ PutsFound'
    BY <2>1 DEF LogFresh, FoundFresh, PutsFound
  <2>3. WriterBegun'
    BY <2>1 DEF WriterBegun
  <2>4. WriterFresh'
    BY <2>1 DEF WriterFresh, FoundFresh, PutsFound
  <2>5. PublishedWritten'
    BY <2>1 DEF PublishedWritten
  <2> QED BY <2>2, <2>3, <2>4, <2>5
<1>4. ASSUME NEW u \in Updaters, GiveUpLog(u) PROVE TunnelInv'
  BY <1>4 DEF GiveUpLog, Go, LogFresh, FoundFresh, PutsFound, WriterBegun, WriterFresh,
              PublishedWritten
<1>5. CASE Announce
  <2>1. LogFresh'
    <3>1. ~appended => log = <<>>
      BY <1>5 DEF Announce, LogFresh
    <3>2. log = <<>> => log' = <<live>>
      BY <1>5 DEF Announce
    <3>3. announced' /\ live' = live /\ appended' = appended
      BY <1>5, Zenon DEF Announce
    <3> QED BY <3>1, <3>2, <3>3, Zenon DEF LogFresh
  <2>2. log' \in Seq(0..Foreign) /\ live' \in 0..Foreign
    BY <1>5, AppendProperties DEF Announce
  <2> QED BY <1>5, <2>1, <2>2 DEF Announce, FoundFresh, PutsFound, WriterBegun, WriterFresh,
                            PublishedWritten
<1>6. ASSUME NEW appends \in BOOLEAN, Relaunch(appends) PROVE TunnelInv'
  <2>1. ~appended' => ~appends \/ log = <<>>
    BY <1>6, Zenon DEF Relaunch
  <2>2. LogFresh'
    <3>1. CASE appends /\ log # <<>>
      BY <2>1, <3>1 DEF LogFresh
    <3>2. CASE ~appends \/ log = <<>>
      <4>1. log' = <<>>
        BY <1>6, <3>2 DEF Relaunch
      <4> QED BY <4>1 DEF LogFresh
    <3> QED BY <3>1, <3>2
  <2>3. live' \in 0..Foreign /\ log' \in Seq(0..Foreign)
    <3>1. <<>> \in Seq(0..Foreign)
      BY EmptySeq
    <3>2. live' \in 0..Foreign
      BY <1>6 DEF Relaunch, Foreign
    <3> QED BY <1>6, <3>1, <3>2 DEF Relaunch
  <2>4. /\ before' = {u \in Updaters : at[u] # "start"}
        /\ UNCHANGED <<kv, at, url, published, writer>>
    BY <1>6 DEF Relaunch
  <2> QED BY <2>2, <2>3, <2>4 DEF FoundFresh, PutsFound, WriterBegun, WriterFresh, PublishedWritten
<1>7. CASE UNCHANGED tunnelVars
  BY <1>7 DEF tunnelVars, LogFresh, FoundFresh, PutsFound, WriterBegun, WriterFresh,
              PublishedWritten
<1> QED BY <1>1, <1>2, <1>3, <1>4, <1>5, <1>6, <1>7 DEF TunnelNext, UpdaterStep

(* Once a run that was begun after the last start of cloudflared has ended *)
(* well, the proxy reads the running tunnel, but for a log that was kept,  *)
(* a foreign tunnel and a run from before the start that wrote last.       *)
THEOREM TunnelIsFound == TunnelSpec => []ProxyFindsTunnel
<1>1. TunnelInv => ProxyFindsTunnel
  BY DEF TunnelInv, PublishedWritten, WriterFresh, ProxyFindsTunnel
<1> QED BY <1>1, TunnelInitial, TunnelStep, PTL DEF TunnelSpec
=============================================================================
