---------------------------- MODULE Rules_proofs ----------------------------
(***************************************************************************)
(* What is proved of the cascade of the rules of one actor (RuleCascade)   *)
(* and of the activation of rules and the ledger of items (RuleActivation).*)
(*                                                                         *)
(* Both deal with the rules, or the rewards, of a list one after the other *)
(* with a fold.  A fold is defined by a recursive function on the subsets  *)
(* of the positions; a lemma for every fold shows that the function exists *)
(* and gives the chain of values from one element to the next, by          *)
(* induction on the length of the list (UpTo, from the well-foundedness of *)
(* the natural numbers).                                                   *)
(***************************************************************************)
EXTENDS RuleCascade, RuleActivation, FiniteSetTheorems, WellFoundedInduction, TLAPS

----------------------------------------------------------------------------
(* Natural numbers.                                                       *)

LEMMA LeastOf ==
    ASSUME NEW S, S \subseteq Nat, S # {}
    PROVE  \E x \in S : \A j \in S : x <= j
  <1>1. \E R : IsWellFoundedOn(R, Nat) /\ \A x, y \in Nat : <<y, x>> \in R <=> y < x
    <2>1. \A x, y \in Nat : <<y, x>> \in OpToRel(<, Nat) <=> y < x
      BY DEF OpToRel
    <2>2. QED
      BY <2>1, NatLessThanWellFounded
  <1>2. PICK R : IsWellFoundedOn(R, Nat) /\ \A x, y \in Nat : <<y, x>> \in R <=> y < x
    BY <1>1
  <1>3. PICK x \in S : \A y \in S : ~(<<y, x>> \in R)
    BY <1>2, WFMin
  <1>4. \A y \in S : x <= y
    <2>1. \A y \in S : ~(y < x)
      BY <1>2, <1>3
    <2>2. QED
      BY <2>1
  <1>5. QED
    BY <1>4

LEMMA UpTo ==
    ASSUME NEW n \in Nat, NEW S, 0 \in S, \A k \in 0..(n - 1) : k \in S => k + 1 \in S
    PROVE  \A k \in 0..n : k \in S
  <1> DEFINE Missing == {k \in 0..n : k \notin S}
  <1>1. SUFFICES ASSUME Missing # {} PROVE FALSE
    OBVIOUS
  <1>2. PICK k \in Missing : \A j \in Missing : k <= j
    <2>1. Missing \subseteq Nat
      OBVIOUS
    <2> HIDE DEF Missing
    <2>. QED BY <1>1, <2>1, LeastOf
  <1>3. k - 1 \in 0..(n - 1) /\ k - 1 \notin Missing
    BY <1>2
  <1>. QED BY <1>2, <1>3

LEMMA MaxIs ==
    ASSUME NEW k \in Nat, NEW s \in SUBSET (1..(k + 1)), k + 1 \in s
    PROVE  Max(s) = k + 1
  <1>1. \A x \in s : (\A y \in s : x >= y) => x = k + 1
    OBVIOUS
  <1>2. k + 1 \in s /\ \A y \in s : k + 1 >= y
    OBVIOUS
  <1>. QED BY <1>1, <1>2 DEF Max

----------------------------------------------------------------------------
(* The cascade: what it keeps of an actor.                                 *)

RuleRecords == [documented : BOOLEAN, active : BOOLEAN, canReroll : BOOLEAN, keyed : BOOLEAN,
               kept : BOOLEAN]
Change == [mask : SUBSET Bits, forms : SUBSET (Tags \cup {"item"})]
ActorSet == [state : [TagRules -> RuleRecords], held : SUBSET Tags, ready : BOOLEAN,
             owners : [Tags -> SUBSET (TagRules \cup {Legacy})], produced : Change]

\* What a rule has to do with a tag of the plugin that it owns, or that is no one's.
Owns(a, r, t) == Gave(r, t) /\ ((a.state[r].active /\ a.state[r].keyed) \/ a.state[r].kept)
Lasts(a, t) == \E r \in TagRules : Gave(r, t) /\ a.state[r].kept

\* While the owners are known every tag has one; before, every tag has a rule.
OwnersWell(a) ==
    /\ \A r \in TagRules : a.state[r].keyed => /\ rule[r].gives # {}
                                               /\ rule[r].persistent => a.state[r].kept
    /\ a.ready => /\ \A t \in a.held : a.owners[t] # {}
                  /\ \A t \in Tags : \A r \in a.owners[t] :
                        IF r = Legacy THEN Lasts(a, t) ELSE Owns(a, r, t)
    /\ ~a.ready => \A t \in a.held : \E r \in TagRules : Owns(a, r, t)

\* A rule that was started has a record.
Known(a) == \A r \in TagRules : a.state[r].active \/ ~a.state[r].canReroll
                                => a.state[r].documented

ActorWell(a) == a \in ActorSet /\ OwnersWell(a) /\ Known(a)

\* What a part of a pass does: a tag that comes or goes is reported.
Reports(b, c) ==
    /\ b.produced.forms \subseteq c.produced.forms
    /\ \A t \in Tags : (t \in b.held <=> t \in c.held) \/ t \in c.produced.forms
    /\ \A r \in TagRules : b.state[r].documented => c.state[r].documented
    /\ c.produced.forms \subseteq Tags
    /\ c.produced.mask = IF c.produced.forms = {} THEN {} ELSE {"tag"}

Reporting(a) == /\ a.produced.forms \subseteq Tags
                /\ a.produced.mask = IF a.produced.forms = {} THEN {} ELSE {"tag"}
----------------------------------------------------------------------------
(* The rules.                                                              *)

LEMMA RuleIs ==
    ASSUME rule \in RuleSets, NEW r \in TagRules
    PROVE  /\ rule[r].needs \subseteq Tags /\ rule[r].bans \subseteq Tags
           /\ rule[r].gives = {} \/ \E t \in Tags : rule[r].gives = {t}
           /\ rule[r].persistent \in BOOLEAN
           /\ Filters(r) \subseteq Tags /\ Legacy \notin TagRules /\ r \in Nat
  BY CascadeAssumption DEF Filters, Legacy, TagRules

\* The tag of a rule that gives one.
LEMMA GivenIs ==
    ASSUME rule \in RuleSets, NEW r \in TagRules, rule[r].gives # {}
    PROVE  \E t \in Tags : /\ rule[r].gives = {t} /\ (CHOOSE u \in rule[r].gives : TRUE) = t
                           /\ \A u : Gave(r, u) <=> u = t
  BY RuleIs DEF Gave

----------------------------------------------------------------------------
(* What each part of a pass does to the actor.                             *)

LEMMA OwnersAre ==
    ASSUME NEW a, ActorWell(a), rule \in RuleSets
    PROVE  /\ ActorWell(WithOwners(a)) /\ WithOwners(a).ready
           /\ WithOwners(a).state = a.state /\ WithOwners(a).held = a.held
           /\ WithOwners(a).produced = a.produced
  <1>0. a \in ActorSet /\ OwnersWell(a) /\ Known(a)
    BY DEF ActorWell
  <1>1. CASE a.ready
    BY <1>1, <1>0 DEF WithOwners, ActorWell
  <1>2. CASE ~a.ready
    <2> DEFINE Own(t) == {r \in TagRules : a.state[r].active /\ a.state[r].keyed /\ t \in rule[r].gives}
               Owners(t) == IF Own(t) = {} /\ t \in a.held THEN {Legacy} ELSE Own(t)
               owners == [t \in Tags |-> Owners(t)]
    <2>1. WithOwners(a) = [a EXCEPT !.ready = TRUE, !.owners = owners]
      BY <1>2 DEF WithOwners
    <2>2. owners \in [Tags -> SUBSET (TagRules \cup {Legacy})]
      OBVIOUS
    <2> DEFINE b == WithOwners(a)
    <2> HIDE DEF owners
    <2>3. /\ b.state = a.state /\ b.held = a.held /\ b.ready = TRUE /\ b.owners = owners
          /\ b.produced = a.produced /\ b \in ActorSet
      BY <1>0, <2>1, <2>2 DEF ActorSet
    <2> HIDE DEF b
    <2>4. \A t \in a.held : owners[t] # {}
      BY <1>0 DEF owners, ActorSet
    <2>5. ASSUME NEW t \in Tags, NEW r \in owners[t]
          PROVE  IF r = Legacy THEN Lasts(a, t) ELSE Owns(a, r, t)
      <3>1. CASE Own(t) = {} /\ t \in a.held
        <4>1. PICK q \in TagRules : Owns(a, q, t)
          BY <1>0, <1>2, <3>1 DEF OwnersWell
        <4>2. a.state[q].kept /\ Gave(q, t)
          BY <3>1, <4>1 DEF Owns, Gave
        <4>3. r = Legacy
          BY <3>1 DEF owners
        <4>. QED BY <4>2, <4>3 DEF Lasts
      <3>2. CASE ~(Own(t) = {} /\ t \in a.held)
        <4>1. r \in Own(t)
          BY <3>2 DEF owners
        <4>2. r # Legacy
          BY <4>1, CascadeAssumption DEF TagRules, Legacy
        <4>. QED BY <4>1, <4>2 DEF Owns, Gave
      <3>. QED BY <3>1, <3>2
    <2>6. OwnersWell(b)
      BY <1>0, <2>3, <2>4, <2>5 DEF OwnersWell, Lasts, Owns
    <2>7. Known(b)
      BY <1>0, <2>3 DEF Known
    <2>. QED BY <2>3, <2>6, <2>7 DEF ActorWell, b
  <1>3. a.ready \in BOOLEAN
    BY <1>0 DEF ActorSet
  <1>. QED BY <1>1, <1>2, <1>3

LEMMA AddedIs ==
    ASSUME NEW a, ActorWell(a), rule \in RuleSets, NEW r \in TagRules, NEW t \in Tags
    PROVE  /\ Added(a, r, t) \in ActorSet /\ Added(a, r, t).state = a.state
           /\ Added(a, r, t).ready = TRUE /\ Added(a, r, t).held = a.held \cup {t}
           /\ Added(a, r, t).owners = [WithOwners(a).owners EXCEPT ![t] = @ \cup {r}]
           /\ t \in a.held => Added(a, r, t).produced = a.produced
           /\ t \notin a.held => Added(a, r, t).produced = Merged(a.produced, For("tag", {t}))
  <1> DEFINE w == WithOwners(a)
             owners == [w.owners EXCEPT ![t] = @ \cup {r}]
             o == [w EXCEPT !.owners[t] = @ \cup {r}, !.held = @ \cup {t}]
  <1>1. /\ w \in ActorSet /\ w.ready = TRUE /\ w.state = a.state /\ w.held = a.held
        /\ w.produced = a.produced
    BY OwnersAre DEF ActorWell, ActorSet
  <1> HIDE DEF w
  <1>2. /\ o \in ActorSet /\ o.state = w.state /\ o.ready = w.ready /\ o.produced = w.produced
        /\ o.held = w.held \cup {t} /\ o.owners = owners
    BY <1>1 DEF ActorSet
  <1>3. Added(a, r, t) = IF t \in a.held THEN o ELSE Produce(o, t)
    BY DEF Added, w
  <1> HIDE DEF o
  <1>4. CASE t \in a.held
    BY <1>1, <1>2, <1>3, <1>4 DEF w
  <1>5. CASE t \notin a.held
    <2>1. Merged(o.produced, For("tag", {t})) \in Change
      BY <1>2 DEF Merged, For, Change, Bits, ActorSet
    <2> DEFINE c == Produce(o, t)
    <2>2. /\ c \in ActorSet /\ c.state = o.state /\ c.ready = o.ready /\ c.held = o.held
          /\ c.owners = o.owners /\ c.produced = Merged(o.produced, For("tag", {t}))
      BY <1>2, <2>1 DEF Produce, ActorSet
    <2>. QED BY <1>1, <1>2, <1>3, <1>5, <2>2 DEF w
  <1>. QED BY <1>4, <1>5

LEMMA RemovedIs ==
    ASSUME NEW a, ActorWell(a), rule \in RuleSets, NEW r \in TagRules, NEW t \in Tags
    PROVE  /\ Removed(a, r, t) \in ActorSet /\ Removed(a, r, t).state = a.state
           /\ Removed(a, r, t).ready = TRUE
           /\ Removed(a, r, t).held = IF WithOwners(a).owners[t] \ {r} = {}
                                      THEN a.held \ {t} ELSE a.held
           /\ Removed(a, r, t).owners = [WithOwners(a).owners EXCEPT ![t] = @ \ {r}]
           /\ Removed(a, r, t).produced = Merged(a.produced, For("tag", {t}))
  <1> DEFINE w == WithOwners(a)
             left == w.owners[t] \ {r}
             o == [w EXCEPT !.owners[t] = left, !.held = IF left = {} THEN @ \ {t} ELSE @]
  <1>1. /\ w \in ActorSet /\ w.ready = TRUE /\ w.state = a.state /\ w.held = a.held
        /\ w.produced = a.produced
    BY OwnersAre DEF ActorWell, ActorSet
  <1>2. Removed(a, r, t) = Produce(o, t)
    BY DEF Removed
  <1> HIDE DEF w
  <1>3. left \in SUBSET (TagRules \cup {Legacy})
    BY <1>1 DEF ActorSet
  <1>4. [w.owners EXCEPT ![t] = left] = [w.owners EXCEPT ![t] = @ \ {r}]
    BY <1>1 DEF ActorSet
  <1> HIDE DEF left
  <1>5. /\ o \in ActorSet /\ o.state = w.state /\ o.ready = w.ready /\ o.produced = w.produced
        /\ o.held = (IF left = {} THEN w.held \ {t} ELSE w.held)
        /\ o.owners = [w.owners EXCEPT ![t] = left]
    BY <1>1, <1>3 DEF ActorSet
  <1> HIDE DEF o
  <1>6. Merged(o.produced, For("tag", {t})) \in Change
    BY <1>5 DEF Merged, For, Change, Bits, ActorSet
  <1> DEFINE c == Produce(o, t)
  <1>7. /\ c \in ActorSet /\ c.state = o.state /\ c.ready = o.ready /\ c.held = o.held
        /\ c.owners = o.owners /\ c.produced = Merged(o.produced, For("tag", {t}))
    BY <1>5, <1>6 DEF Produce, ActorSet
  <1> HIDE DEF c
  <1>. QED BY <1>1, <1>2, <1>4, <1>5, <1>7 DEF w, left, c

\* Giving or taking a tag is reported.
LEMMA MergedReports ==
    ASSUME NEW b, NEW c, NEW t \in Tags, Reporting(b),
           b.produced.forms \subseteq Tags,
           c.produced = Merged(b.produced, For("tag", {t})),
           \A u \in Tags : u # t => (u \in b.held <=> u \in c.held),
           c.state = b.state
    PROVE  Reports(b, c)
  <1>1. c.produced.forms = b.produced.forms \cup {t} /\ c.produced.mask = b.produced.mask \cup {"tag"}
    BY DEF Merged, For
  <1>2. c.produced.mask = {"tag"}
    BY <1>1 DEF Reporting
  <1>. QED BY <1>1, <1>2 DEF Reports

LEMMA SameReports ==
    ASSUME NEW b, NEW c, Reporting(b), c.produced = b.produced,
           \A u \in Tags : u \in b.held <=> u \in c.held,
           \A r \in TagRules : b.state[r].documented => c.state[r].documented
    PROVE  Reports(b, c)
  BY DEF Reports, Reporting

LEMMA ReportsOn ==
    ASSUME NEW a, NEW b, NEW c, Reports(a, b), Reports(b, c)
    PROVE  Reports(a, c) /\ Reporting(c)
  BY DEF Reports, Reporting

\* A rule that ends takes back its temporary tag; the records of others stay.
LEMMA TagRuleEnds ==
    ASSUME NEW a, ActorWell(a), Reporting(a), rule \in RuleSets, NEW r \in TagRules,
           a.state[r].active
    PROVE  /\ ActorWell(Ended(a, r)) /\ Reports(a, Ended(a, r))
           /\ ~Ended(a, r).state[r].active
           /\ \A q \in TagRules \ {r} : Ended(a, r).state[q] = a.state[q]
  <1> DEFINE temporary == a.state[r].keyed /\ ~rule[r].persistent
             left == IF temporary THEN Removed(a, r, CHOOSE t \in rule[r].gives : TRUE) ELSE a
             outstanding == temporary /\ rule[r].gives \subseteq left.held
             st == [a.state[r] EXCEPT !.active = FALSE, !.canReroll = ~outstanding,
                                      !.keyed = outstanding]
             c == Ended(a, r)
  <1>0. a \in ActorSet /\ OwnersWell(a) /\ Known(a) /\ a.state[r] \in RuleRecords
    BY DEF ActorWell, ActorSet
  <1>r. \A t \in Tags :
           /\ Removed(a, r, t) \in ActorSet /\ Removed(a, r, t).state = a.state
           /\ Removed(a, r, t).ready = TRUE
           /\ Removed(a, r, t).held = IF WithOwners(a).owners[t] \ {r} = {}
                                      THEN a.held \ {t} ELSE a.held
           /\ Removed(a, r, t).owners = [WithOwners(a).owners EXCEPT ![t] = @ \ {r}]
           /\ Removed(a, r, t).produced = Merged(a.produced, For("tag", {t}))
    BY RemovedIs
  <1>1. Reports(a, left)
    <2>1. CASE temporary
      <3>1. PICK t \in Tags : rule[r].gives = {t} /\ (CHOOSE u \in rule[r].gives : TRUE) = t
        BY <1>0, <2>1, GivenIs DEF OwnersWell
      <3>2. left = Removed(a, r, t)
        BY <2>1, <3>1
      <3> HIDE DEF left
      <3>3. /\ left \in ActorSet /\ left.state = a.state
            /\ left.produced = Merged(a.produced, For("tag", {t}))
            /\ left.held = (IF WithOwners(a).owners[t] \ {r} = {} THEN a.held \ {t} ELSE a.held)
        BY <3>2, <1>r
      <3>4. Reports(a, left)
        BY <3>3, MergedReports DEF Reporting
      <3>. QED BY <2>1, <3>3, <3>4
    <2>2. CASE ~temporary
      BY <1>0, <2>2, SameReports
    <2>. QED BY <2>1, <2>2
  <1>2. left \in ActorSet /\ left.state = a.state
    <2>1. CASE temporary
      <3>1. PICK t \in Tags : (CHOOSE u \in rule[r].gives : TRUE) = t
        BY <1>0, <2>1, GivenIs DEF OwnersWell
      <3>2. left = Removed(a, r, t)
        BY <2>1, <3>1
      <3>. QED BY <3>2, <1>r
    <2>2. CASE ~temporary
      BY <1>0, <2>2
    <2>. QED BY <2>1, <2>2
  <1>3. outstanding \in BOOLEAN
    OBVIOUS
  <1>4. Ended(a, r) = [left EXCEPT !.state[r] = [@ EXCEPT !.active = FALSE,
                                       !.canReroll = ~outstanding, !.keyed = outstanding]]
    BY DEF Ended
  <1> HIDE DEF outstanding, left
  <1>5. st \in RuleRecords /\ st.active = FALSE /\ st.canReroll = ~outstanding
        /\ st.keyed = outstanding /\ st.kept = a.state[r].kept
        /\ st.documented = a.state[r].documented
    BY <1>0, <1>3 DEF RuleRecords
  <1> HIDE DEF st
  <1>6. /\ c \in ActorSet /\ c.held = left.held /\ c.owners = left.owners /\ c.ready = left.ready
        /\ c.produced = left.produced
        /\ c.state = [a.state EXCEPT ![r] = st]
    BY <1>2, <1>4, <1>5 DEF ActorSet, st
  <1> HIDE DEF c
  <1>7. c.state[r] = st /\ \A q \in TagRules \ {r} : c.state[q] = a.state[q]
    BY <1>0, <1>6 DEF ActorSet
  <1>8. Reports(a, c)
    BY <1>1, <1>5, <1>6, <1>7 DEF Reports
  <1>9. Known(c)
    <2>1. a.state[r].documented
      BY <1>0 DEF Known
    <2>. QED BY <1>0, <1>5, <1>7, <2>1 DEF Known
  <1>10. OwnersWell(c)
    <2>1. CASE temporary
      <3>0. PICK t \in Tags : /\ rule[r].gives = {t} /\ (CHOOSE u \in rule[r].gives : TRUE) = t
                              /\ \A u : Gave(r, u) <=> u = t
        BY <1>0, <2>1, GivenIs DEF OwnersWell
      <3> DEFINE w == WithOwners(a)
      <3>1. /\ left.ready = TRUE
            /\ left.held = (IF w.owners[t] \ {r} = {} THEN a.held \ {t} ELSE a.held)
            /\ left.owners = [w.owners EXCEPT ![t] = @ \ {r}]
        <4>1. left = Removed(a, r, t)
          BY <2>1, <3>0 DEF left
        <4>. QED BY <1>r, <4>1
      <3>2. /\ OwnersWell(w) /\ w.ready /\ w.state = a.state /\ w.held = a.held
            /\ w.owners \in [Tags -> SUBSET (TagRules \cup {Legacy})] /\ Legacy \notin TagRules
        BY OwnersAre, RuleIs DEF ActorWell, ActorSet
      <3> HIDE DEF w
      <3>3. \A u \in Tags : c.owners[u] = IF u = t THEN w.owners[u] \ {r} ELSE w.owners[u]
        BY <1>6, <3>1, <3>2
      <3>4. \A u \in c.held : c.owners[u] # {}
        <4>1. c.held \subseteq Tags /\ c.held \subseteq a.held
          BY <1>6, <3>1 DEF ActorSet
        <4>2. \A u \in a.held : w.owners[u] # {}
          BY <3>2 DEF OwnersWell
        <4>. QED BY <1>6, <3>1, <3>3, <4>1, <4>2
      <3>5. ASSUME NEW u \in Tags, NEW q \in c.owners[u]
            PROVE  IF q = Legacy THEN Lasts(c, u) ELSE Owns(c, q, u)
        <4>1. q \in w.owners[u] /\ (u = t => q # r)
          BY <3>3
        <4>2. IF q = Legacy THEN Lasts(w, u) ELSE Owns(w, q, u)
          BY <3>2, <4>1 DEF OwnersWell
        <4>3. \A p \in TagRules : c.state[p].kept <=> w.state[p].kept
          BY <1>5, <1>7, <3>2
        <4>4. CASE q = Legacy
          BY <4>2, <4>3, <4>4 DEF Lasts
        <4>5. CASE q # Legacy
          <5>1. Owns(w, q, u) /\ q \in TagRules
            BY <3>2, <4>1, <4>2, <4>5
          <5>2. q = r => FALSE
            BY <3>0, <4>1, <5>1 DEF Owns
          <5>. QED BY <1>7, <3>2, <4>5, <5>1, <5>2 DEF Owns
        <4>. QED BY <4>4, <4>5
      <3>6. \A q \in TagRules : c.state[q].keyed =>
                rule[q].gives # {} /\ (rule[q].persistent => c.state[q].kept)
        BY <1>0, <1>5, <1>7, <2>1, <3>0 DEF OwnersWell
      <3>7. c.ready
        BY <1>6, <3>1
      <3>. QED BY <3>4, <3>5, <3>6, <3>7 DEF OwnersWell
    <2>2. CASE ~temporary
      <3>1. left = a
        BY <2>2 DEF left
      <3>2. ~outstanding
        BY <2>2 DEF outstanding
      <3>3. a.state[r].keyed => a.state[r].kept
        BY <1>0, <2>2 DEF OwnersWell
      <3>4. \A q \in TagRules : c.state[q].kept <=> a.state[q].kept
        BY <1>5, <1>7
      <3>5. \A q \in TagRules, u \in Tags : Owns(a, q, u) => Owns(c, q, u)
        BY <1>5, <1>7, <3>3 DEF Owns
      <3>6. \A u \in Tags : Lasts(a, u) => Lasts(c, u)
        BY <3>4 DEF Lasts
      <3>7. \A q \in TagRules : c.state[q].keyed => a.state[q].keyed
        BY <1>5, <1>7, <3>2
      <3>8. c.held = a.held /\ c.owners = a.owners /\ c.ready = a.ready /\ a.held \subseteq Tags
            /\ a.owners \in [Tags -> SUBSET (TagRules \cup {Legacy})] /\ Legacy \notin TagRules
        BY <1>0, <1>6, <3>1, RuleIs DEF ActorSet
      <3>9. \A q \in TagRules : c.state[q].keyed =>
                rule[q].gives # {} /\ (rule[q].persistent => c.state[q].kept)
        BY <1>0, <3>4, <3>7 DEF OwnersWell
      <3>10. c.ready => /\ \A u \in c.held : c.owners[u] # {}
                        /\ \A u \in Tags : \A q \in c.owners[u] :
                              IF q = Legacy THEN Lasts(c, u) ELSE Owns(c, q, u)
        BY <1>0, <3>5, <3>6, <3>8 DEF OwnersWell
      <3>11. ~c.ready => \A u \in c.held : \E q \in TagRules : Owns(c, q, u)
        BY <1>0, <3>5, <3>8 DEF OwnersWell
      <3>. QED BY <3>9, <3>10, <3>11 DEF OwnersWell
    <2>. QED BY <2>1, <2>2
  <1>11. ActorWell(c)
    BY <1>6, <1>9, <1>10 DEF ActorWell
  <1>. QED BY <1>5, <1>7, <1>8, <1>11 DEF c

\* A rule that starts gives its tag, if it wins one and did not give it for good.
LEMMA TagRuleStarts ==
    ASSUME NEW a, ActorWell(a), Reporting(a), rule \in RuleSets, NEW r \in TagRules,
           ~a.state[r].active, NEW won \in BOOLEAN, won => rule[r].gives # {}
    PROVE  /\ ActorWell(StartedAnew(a, r, won)) /\ Reports(a, StartedAnew(a, r, won))
           /\ StartedAnew(a, r, won).state[r].active
           /\ \A q \in TagRules \ {r} : StartedAnew(a, r, won).state[q] = a.state[q]
  <1> DEFINE given == won /\ ~(rule[r].persistent /\ a.state[r].kept)
             started == IF given THEN Added(a, r, CHOOSE t \in rule[r].gives : TRUE) ELSE a
             keep == won /\ rule[r].persistent
             st == [documented |-> TRUE, active |-> TRUE, canReroll |-> TRUE, keyed |-> won,
                    kept |-> a.state[r].kept \/ keep]
             c == StartedAnew(a, r, won)
  <1>0. a \in ActorSet /\ OwnersWell(a) /\ Known(a) /\ a.state[r] \in RuleRecords
    BY DEF ActorWell, ActorSet
  <1>a. \A t \in Tags :
           /\ Added(a, r, t) \in ActorSet /\ Added(a, r, t).state = a.state
           /\ Added(a, r, t).ready = TRUE /\ Added(a, r, t).held = a.held \cup {t}
           /\ Added(a, r, t).owners = [WithOwners(a).owners EXCEPT ![t] = @ \cup {r}]
           /\ t \in a.held => Added(a, r, t).produced = a.produced
           /\ t \notin a.held => Added(a, r, t).produced = Merged(a.produced, For("tag", {t}))
    BY AddedIs
  <1>1. given => \E t \in Tags : /\ started = Added(a, r, t) /\ rule[r].gives = {t}
                                 /\ \A u : Gave(r, u) <=> u = t
    <2>1. given => \E t \in Tags : /\ rule[r].gives = {t}
                                   /\ (CHOOSE u \in rule[r].gives : TRUE) = t
                                   /\ \A u : Gave(r, u) <=> u = t
      BY GivenIs
    <2>. QED BY <2>1
  <1>2. ~given => started = a
    OBVIOUS
  <1>3. Reports(a, started) /\ started \in ActorSet /\ started.state = a.state
    <2>1. CASE given
      <3>1. PICK t \in Tags : started = Added(a, r, t)
        BY <1>1, <2>1
      <3> HIDE DEF started
      <3>2. CASE t \in a.held
        <4>1. /\ started \in ActorSet /\ started.state = a.state /\ started.produced = a.produced
              /\ started.held = a.held \cup {t}
          BY <1>a, <3>1, <3>2
        <4>2. \A u \in Tags : u \in started.held <=> u \in a.held
          BY <3>2, <4>1
        <4>3. Reports(a, started)
          BY <4>1, <4>2, SameReports
        <4>. QED BY <4>1, <4>3
      <3>3. CASE t \notin a.held
        <4>1. started.produced = Merged(a.produced, For("tag", {t}))
          BY <1>a, <3>1, <3>3
        <4>2. started.held = a.held \cup {t} /\ started.state = a.state /\ started \in ActorSet
          BY <1>a, <3>1
        <4>3. Reports(a, started)
          BY <4>1, <4>2, MergedReports DEF Reporting
        <4>. QED BY <4>2, <4>3
      <3>. QED BY <3>2, <3>3
    <2>2. CASE ~given
      BY <1>0, <1>2, <2>2, SameReports
    <2>. QED BY <2>1, <2>2
  <1>4. c = [started EXCEPT !.state[r] =
                [documented |-> TRUE, active |-> TRUE, canReroll |-> TRUE, keyed |-> won,
                 kept |-> @.kept \/ keep]]
    BY DEF StartedAnew
  <1>5. st \in RuleRecords /\ st.documented = TRUE /\ st.active = TRUE /\ st.canReroll = TRUE
        /\ st.keyed = won /\ (st.kept <=> a.state[r].kept \/ keep)
    BY <1>0 DEF RuleRecords
  <1> HIDE DEF started
  <1>6. c = [started EXCEPT !.state[r] = st]
    BY <1>3, <1>4
  <1> HIDE DEF st, c
  <1>7. /\ c \in ActorSet /\ c.held = started.held /\ c.owners = started.owners
        /\ c.ready = started.ready /\ c.produced = started.produced
        /\ c.state = [a.state EXCEPT ![r] = st]
    BY <1>3, <1>5, <1>6 DEF ActorSet
  <1>8. c.state[r] = st /\ \A q \in TagRules \ {r} : c.state[q] = a.state[q]
    BY <1>0, <1>7 DEF ActorSet
  <1>9. Reports(a, c)
    BY <1>3, <1>5, <1>7, <1>8 DEF Reports
  <1>10. Known(c)
    BY <1>0, <1>5, <1>8 DEF Known
  <1>11. \A q \in TagRules : a.state[q].kept => c.state[q].kept
    BY <1>5, <1>8
  <1>12. \A q \in TagRules, u \in Tags : Owns(a, q, u) => Owns(c, q, u)
    BY <1>5, <1>8 DEF Owns
  <1>13. \A u \in Tags : Lasts(a, u) => Lasts(c, u)
    BY <1>11 DEF Lasts
  <1>14. \A q \in TagRules : c.state[q].keyed =>
            rule[q].gives # {} /\ (rule[q].persistent => c.state[q].kept)
    BY <1>0, <1>5, <1>8 DEF OwnersWell
  <1>15. OwnersWell(c)
    <2>1. CASE given
      <3>0. PICK t \in Tags : /\ started = Added(a, r, t) /\ rule[r].gives = {t}
                              /\ \A u : Gave(r, u) <=> u = t
        BY <1>1, <2>1
      <3> DEFINE w == WithOwners(a)
      <3>1. /\ c.ready = TRUE /\ c.held = a.held \cup {t}
            /\ c.owners = [w.owners EXCEPT ![t] = @ \cup {r}]
        BY <1>a, <1>7, <3>0
      <3>2. /\ OwnersWell(w) /\ w.ready /\ w.state = a.state /\ w.held = a.held
            /\ w.owners \in [Tags -> SUBSET (TagRules \cup {Legacy})] /\ r # Legacy
            /\ a.held \subseteq Tags
        BY <1>0, OwnersAre, RuleIs DEF ActorWell, ActorSet
      <3> HIDE DEF w
      <3>3. \A u \in Tags : c.owners[u] = IF u = t THEN w.owners[u] \cup {r} ELSE w.owners[u]
        BY <3>1, <3>2
      <3>4. \A u \in c.held : c.owners[u] # {}
        BY <3>1, <3>2, <3>3 DEF OwnersWell
      <3>5. \A q \in TagRules, u \in Tags : Owns(w, q, u) <=> Owns(a, q, u)
        BY <3>2 DEF Owns
      <3>6. \A u \in Tags : Lasts(w, u) <=> Lasts(a, u)
        BY <3>2 DEF Lasts
      <3>7. Owns(c, r, t)
        BY <1>5, <1>8, <2>1, <3>0 DEF Owns
      <3>8. ASSUME NEW u \in Tags, NEW q \in c.owners[u]
            PROVE  IF q = Legacy THEN Lasts(c, u) ELSE Owns(c, q, u)
        <4>1. CASE q \in w.owners[u]
          <5>1. IF q = Legacy THEN Lasts(w, u) ELSE Owns(w, q, u) /\ q \in TagRules
            BY <3>2, <4>1 DEF OwnersWell
          <5>. QED BY <1>12, <1>13, <3>5, <3>6, <5>1
        <4>2. CASE q \notin w.owners[u]
          BY <3>2, <3>3, <3>7, <4>2
        <4>. QED BY <4>1, <4>2
      <3>. QED BY <1>14, <3>1, <3>4, <3>8 DEF OwnersWell
    <2>2. CASE ~given
      <3>1. c.held = a.held /\ c.owners = a.owners /\ c.ready = a.ready /\ a.held \subseteq Tags
            /\ a.owners \in [Tags -> SUBSET (TagRules \cup {Legacy})]
        BY <1>0, <1>2, <1>7, <2>2 DEF ActorSet
      <3>2. c.ready => /\ \A u \in c.held : c.owners[u] # {}
                       /\ \A u \in Tags : \A q \in c.owners[u] :
                             IF q = Legacy THEN Lasts(c, u) ELSE Owns(c, q, u)
        BY <1>0, <1>12, <1>13, <3>1 DEF OwnersWell
      <3>3. ~c.ready => \A u \in c.held : \E q \in TagRules : Owns(c, q, u)
        BY <1>0, <1>12, <3>1 DEF OwnersWell
      <3>. QED BY <1>14, <3>2, <3>3 DEF OwnersWell
    <2>. QED BY <2>1, <2>2
  <1>16. ActorWell(c)
    BY <1>7, <1>10, <1>15 DEF ActorWell
  <1>. QED BY <1>5, <1>8, <1>9, <1>16 DEF c

LEMMA ActivatedIs ==
    ASSUME NEW a, ActorWell(a), Reporting(a), rule \in RuleSets, NEW r \in TagRules,
           NEW won \in BOOLEAN, won => rule[r].gives # {}
    PROVE  /\ ActorWell(Activated(a, r, won)) /\ Reports(a, Activated(a, r, won))
           /\ Activated(a, r, won).state[r].active
           /\ \A q \in TagRules \ {r} : Activated(a, r, won).state[q] = a.state[q]
  <1>0. a \in ActorSet /\ OwnersWell(a) /\ Known(a) /\ a.state[r] \in RuleRecords
    BY DEF ActorWell, ActorSet
  <1>1. CASE a.state[r].active
    BY <1>1, SameReports DEF Activated
  <1>2. CASE ~a.state[r].active /\ a.state[r].canReroll
    BY <1>2, TagRuleStarts DEF Activated
  <1>3. CASE ~a.state[r].active /\ ~a.state[r].canReroll
    <2> DEFINE c == [a EXCEPT !.state[r].active = TRUE]
               st == [a.state[r] EXCEPT !.active = TRUE]
    <2>1. Activated(a, r, won) = c
      BY <1>3 DEF Activated
    <2>2. st \in RuleRecords /\ st.active = TRUE /\ st.keyed = a.state[r].keyed
          /\ st.kept = a.state[r].kept /\ st.documented = a.state[r].documented
          /\ st.canReroll = a.state[r].canReroll
      BY <1>0 DEF RuleRecords
    <2>3. c = [a EXCEPT !.state[r] = st]
      BY <1>0, SMTT(20)
    <2> HIDE DEF st, c
    <2>4. /\ c \in ActorSet /\ c.held = a.held /\ c.owners = a.owners
          /\ c.ready = a.ready /\ c.produced = a.produced
          /\ c.state = [a.state EXCEPT ![r] = st]
      BY <1>0, <2>2, <2>3 DEF ActorSet
    <2>5. c.state[r] = st /\ \A q \in TagRules \ {r} : c.state[q] = a.state[q]
      BY <1>0, <2>4 DEF ActorSet
    <2>6. Reports(a, c)
      BY <2>2, <2>4, <2>5, SameReports
    <2>7. Known(c)
      BY <1>0, <1>3, <2>2, <2>5 DEF Known
    <2>8. \A q \in TagRules : /\ c.state[q].kept <=> a.state[q].kept
                              /\ c.state[q].keyed <=> a.state[q].keyed
                              /\ a.state[q].active => c.state[q].active
      BY <2>2, <2>5
    <2>9. \A q \in TagRules, u \in Tags : Owns(a, q, u) => Owns(c, q, u)
      BY <2>8 DEF Owns
    <2>10. \A u \in Tags : Lasts(a, u) => Lasts(c, u)
      BY <2>8 DEF Lasts
    <2>11. a.held \subseteq Tags /\ a.owners \in [Tags -> SUBSET (TagRules \cup {Legacy})]
      BY <1>0 DEF ActorSet
    <2>12. \A q \in TagRules : c.state[q].keyed =>
              rule[q].gives # {} /\ (rule[q].persistent => c.state[q].kept)
      BY <1>0, <2>8 DEF OwnersWell
    <2>13. c.ready => /\ \A u \in c.held : c.owners[u] # {}
                      /\ \A u \in Tags : \A q \in c.owners[u] :
                            IF q = Legacy THEN Lasts(c, u) ELSE Owns(c, q, u)
      BY <1>0, <2>4, <2>9, <2>10, <2>11 DEF OwnersWell
    <2>14. ~c.ready => \A u \in c.held : \E q \in TagRules : Owns(c, q, u)
      BY <1>0, <2>4, <2>9, <2>11 DEF OwnersWell
    <2>15. OwnersWell(c)
      BY <2>12, <2>13, <2>14 DEF OwnersWell
    <2>. QED BY <2>1, <2>2, <2>4, <2>5, <2>6, <2>7, <2>15 DEF ActorWell
  <1>. QED BY <1>1, <1>2, <1>3

\* A phase, rule by rule.
LEMMA PhaseChain ==
    ASSUME NEW a, NEW S, NEW won
    PROVE  \E g : /\ g[0] = a /\ PhaseApplied(a, S, won) = g[NTagRules]
                  /\ \A k \in 0..(NTagRules - 1) : g[k + 1] = (IF k + 1 \in S /\ Matches(a, k + 1)
                       THEN Activated(g[k], k + 1, k + 1 \in won) ELSE g[k])
  <1> DEFINE matching == {r \in S : Matches(a, r)}
             Dealt(b, r) == IF r \in matching THEN Activated(b, r, r \in won) ELSE b
             seq == [r \in TagRules |-> r]
             Rest(g, s) == IF s = {} THEN a ELSE Dealt(g[s \ {Max(s)}], seq[Max(s)])
             iter == CHOOSE g : g = [s \in SUBSET DOMAIN seq |-> Rest(g, s)]
             Table(k, g) == g = [s \in SUBSET (1..k) |-> Rest(g, s)]
             Sound == {k \in 0..NTagRules : \E g : Table(k, g)}
  <1>1. PhaseApplied(a, S, won) = iter[DOMAIN seq]
    BY DEF PhaseApplied, FoldLeft, MapThenFoldSet
  <1>2. DOMAIN seq = 1..NTagRules /\ NTagRules \in Nat
    BY CascadeAssumption DEF TagRules
  <1> HIDE DEF Dealt, seq
  <1>3. \A g, h, s : s = {} \/ g[s \ {Max(s)}] = h[s \ {Max(s)}] => Rest(g, s) = Rest(h, s)
    OBVIOUS
  <1>4. /\ \A g : Rest(g, {}) = a
        /\ \A g, s : s # {} => Rest(g, s) = Dealt(g[s \ {Max(s)}], seq[Max(s)])
    OBVIOUS
  <1> HIDE DEF Rest
  <1>5. 0 \in Sound
    <2> DEFINE h == [s \in SUBSET (1..0) |-> a]
               f == [s \in SUBSET (1..0) |-> Rest(h, s)]
    <2>1. \A s \in SUBSET (1..0) : s = {}
      OBVIOUS
    <2>2. \A s \in SUBSET (1..0) : h[s] = f[s]
      BY <1>4, <2>1
    <2>3. h = f
      BY <2>2
    <2> HIDE DEF h
    <2>4. Table(0, h)
      BY <2>3
    <2> HIDE DEF Table
    <2>. QED BY <1>2, <2>4
  <1>6. ASSUME NEW k \in 0..(NTagRules - 1), k \in Sound
        PROVE  k + 1 \in Sound
    <2>1. PICK g : Table(k, g)
      BY <1>6
    <2>2. k \in Nat /\ k + 1 \in 0..NTagRules
      BY <1>2
    <2> DEFINE h == [s \in SUBSET (1..(k + 1)) |->
                        IF s \in SUBSET (1..k) THEN g[s] ELSE Rest(g, s)]
               f == [s \in SUBSET (1..(k + 1)) |-> Rest(h, s)]
    <2>3. \A s \in SUBSET (1..k) : g[s] = Rest(g, s)
      BY <2>1
    <2>4. 1..k \subseteq 1..(k + 1)
      BY <2>2
    <2>5. \A s \in SUBSET (1..k) : h[s] = g[s]
      BY <2>4
    <2>6. ASSUME NEW s \in SUBSET (1..(k + 1))
          PROVE  s \ {Max(s)} \in SUBSET (1..k)
      <3>1. CASE k + 1 \in s
        <4>1. Max(s) = k + 1
          BY <2>2, <3>1, MaxIs
        <4>2. \A i \in 1..(k + 1) : i # k + 1 => i \in 1..k
          BY <2>2
        <4>. QED BY <4>1, <4>2
      <3>2. CASE k + 1 \notin s
        <4>1. \A i \in 1..(k + 1) : i # k + 1 => i \in 1..k
          BY <2>2
        <4>. QED BY <3>2, <4>1
      <3>. QED BY <3>1, <3>2
    <2>7. \A s \in SUBSET (1..(k + 1)) : h[s] = Rest(g, s)
      BY <2>3
    <2>8. ASSUME NEW s \in SUBSET (1..(k + 1))
          PROVE  h[s] = f[s]
      <3>1. h[s \ {Max(s)}] = g[s \ {Max(s)}]
        BY <2>5, <2>6
      <3>2. f[s] = Rest(h, s)
        OBVIOUS
      <3>3. h[s] = Rest(g, s)
        BY <2>7
      <3> HIDE DEF h, f
      <3>4. Rest(g, s) = Rest(h, s)
        BY <1>3, <3>1
      <3>. QED BY <3>2, <3>3, <3>4
    <2>9. h = f
      BY <2>8
    <2> HIDE DEF h
    <2>10. Table(k + 1, h)
      BY <2>9
    <2> HIDE DEF Table
    <2>. QED BY <2>2, <2>10
  <1>7. NTagRules \in Sound
    <2> HIDE DEF Sound
    <2>1. \A k \in 0..NTagRules : k \in Sound
      BY <1>2, <1>5, <1>6, UpTo
    <2>. QED BY <1>2, <2>1
  <1>8. iter = CHOOSE g : Table(NTagRules, g)
    BY <1>2
  <1>9. Table(NTagRules, iter)
    <2> HIDE DEF Table, iter
    <2>1. \E g : Table(NTagRules, g)
      BY <1>7
    <2>. QED BY <1>8, <2>1
  <1> HIDE DEF iter, Sound
  <1>10. \A s \in SUBSET (1..NTagRules) : iter[s] = Rest(iter, s)
    BY <1>9
  <1> DEFINE g == [k \in 0..NTagRules |-> iter[1..k]]
  <1>11. g[0] = a
    <2>1. 1..0 = {} /\ {} \in SUBSET (1..NTagRules)
      OBVIOUS
    <2>2. iter[{}] = a
      BY <1>4, <1>10, <2>1
    <2>3. 0 \in 0..NTagRules
      BY <1>2
    <2>. QED BY <2>1, <2>2, <2>3
  <1>12. ASSUME NEW k \in 0..(NTagRules - 1)
         PROVE  g[k + 1] = Dealt(g[k], seq[k + 1])
    <2>1. /\ 1..(k + 1) \subseteq 1..NTagRules /\ k + 1 \in 1..(k + 1)
          /\ k \in Nat /\ k \in 0..NTagRules /\ k + 1 \in 0..NTagRules
      BY <1>2
    <2>2. Max(1..(k + 1)) = k + 1
      BY <2>1, MaxIs
    <2>3. (1..(k + 1)) \ {k + 1} = 1..k
      BY <2>1
    <2>4. iter[1..(k + 1)] = Rest(iter, 1..(k + 1)) /\ 1..(k + 1) # {}
      BY <1>10, <2>1
    <2>5. iter[1..(k + 1)] = Dealt(iter[1..k], seq[k + 1])
      BY <1>4, <2>2, <2>3, <2>4
    <2>. QED BY <2>1, <2>5
  <1>13. PhaseApplied(a, S, won) = g[NTagRules]
    BY <1>1, <1>2
  <1> HIDE DEF g
  <1>14. \A k \in 0..(NTagRules - 1) : k + 1 \in TagRules /\ seq[k + 1] = k + 1
    BY <1>2 DEF TagRules, seq
  <1>15. ASSUME NEW k \in 0..(NTagRules - 1)
         PROVE  g[k + 1] = (IF k + 1 \in S /\ Matches(a, k + 1)
                       THEN Activated(g[k], k + 1, k + 1 \in won) ELSE g[k])
    BY <1>12, <1>14 DEF Dealt
  <1>. QED BY <1>11, <1>13, <1>15

\* The rules that end, rule by rule.
LEMMA ClearedChain ==
    ASSUME NEW a, NEW d
    PROVE  \E g : /\ g[0] = a /\ Cleared(a, d) = g[NTagRules]
                  /\ \A k \in 0..(NTagRules - 1) : g[k + 1] = (IF /\ k + 1 \in Documented(a, d) /\ ~Unstable(k + 1)
                          /\ ~Matches(g[k], k + 1) /\ g[k].state[k + 1].active
                       THEN Ended(g[k], k + 1) ELSE g[k])
  <1> DEFINE Dealt(b, r) ==
                IF r \in Documented(a, d) /\ ~Unstable(r) /\ ~Matches(b, r) /\ b.state[r].active
                THEN Ended(b, r) ELSE b
             seq == [r \in TagRules |-> r]
             Rest(g, s) == IF s = {} THEN a ELSE Dealt(g[s \ {Max(s)}], seq[Max(s)])
             iter == CHOOSE g : g = [s \in SUBSET DOMAIN seq |-> Rest(g, s)]
             Table(k, g) == g = [s \in SUBSET (1..k) |-> Rest(g, s)]
             Sound == {k \in 0..NTagRules : \E g : Table(k, g)}
  <1>1. Cleared(a, d) = iter[DOMAIN seq]
    BY DEF Cleared, FoldLeft, MapThenFoldSet
  <1>2. DOMAIN seq = 1..NTagRules /\ NTagRules \in Nat
    BY CascadeAssumption DEF TagRules
  <1> HIDE DEF Dealt, seq
  <1>3. \A g, h, s : s = {} \/ g[s \ {Max(s)}] = h[s \ {Max(s)}] => Rest(g, s) = Rest(h, s)
    OBVIOUS
  <1>4. /\ \A g : Rest(g, {}) = a
        /\ \A g, s : s # {} => Rest(g, s) = Dealt(g[s \ {Max(s)}], seq[Max(s)])
    OBVIOUS
  <1> HIDE DEF Rest
  <1>5. 0 \in Sound
    <2> DEFINE h == [s \in SUBSET (1..0) |-> a]
               f == [s \in SUBSET (1..0) |-> Rest(h, s)]
    <2>1. \A s \in SUBSET (1..0) : s = {}
      OBVIOUS
    <2>2. \A s \in SUBSET (1..0) : h[s] = f[s]
      BY <1>4, <2>1
    <2>3. h = f
      BY <2>2
    <2> HIDE DEF h
    <2>4. Table(0, h)
      BY <2>3
    <2> HIDE DEF Table
    <2>. QED BY <1>2, <2>4
  <1>6. ASSUME NEW k \in 0..(NTagRules - 1), k \in Sound
        PROVE  k + 1 \in Sound
    <2>1. PICK g : Table(k, g)
      BY <1>6
    <2>2. k \in Nat /\ k + 1 \in 0..NTagRules
      BY <1>2
    <2> DEFINE h == [s \in SUBSET (1..(k + 1)) |->
                        IF s \in SUBSET (1..k) THEN g[s] ELSE Rest(g, s)]
               f == [s \in SUBSET (1..(k + 1)) |-> Rest(h, s)]
    <2>3. \A s \in SUBSET (1..k) : g[s] = Rest(g, s)
      BY <2>1
    <2>4. 1..k \subseteq 1..(k + 1)
      BY <2>2
    <2>5. \A s \in SUBSET (1..k) : h[s] = g[s]
      BY <2>4
    <2>6. ASSUME NEW s \in SUBSET (1..(k + 1))
          PROVE  s \ {Max(s)} \in SUBSET (1..k)
      <3>1. CASE k + 1 \in s
        <4>1. Max(s) = k + 1
          BY <2>2, <3>1, MaxIs
        <4>2. \A i \in 1..(k + 1) : i # k + 1 => i \in 1..k
          BY <2>2
        <4>. QED BY <4>1, <4>2
      <3>2. CASE k + 1 \notin s
        <4>1. \A i \in 1..(k + 1) : i # k + 1 => i \in 1..k
          BY <2>2
        <4>. QED BY <3>2, <4>1
      <3>. QED BY <3>1, <3>2
    <2>7. \A s \in SUBSET (1..(k + 1)) : h[s] = Rest(g, s)
      BY <2>3
    <2>8. ASSUME NEW s \in SUBSET (1..(k + 1))
          PROVE  h[s] = f[s]
      <3>1. h[s \ {Max(s)}] = g[s \ {Max(s)}]
        BY <2>5, <2>6
      <3>2. f[s] = Rest(h, s)
        OBVIOUS
      <3>3. h[s] = Rest(g, s)
        BY <2>7
      <3> HIDE DEF h, f
      <3>4. Rest(g, s) = Rest(h, s)
        BY <1>3, <3>1
      <3>. QED BY <3>2, <3>3, <3>4
    <2>9. h = f
      BY <2>8
    <2> HIDE DEF h
    <2>10. Table(k + 1, h)
      BY <2>9
    <2> HIDE DEF Table
    <2>. QED BY <2>2, <2>10
  <1>7. NTagRules \in Sound
    <2> HIDE DEF Sound
    <2>1. \A k \in 0..NTagRules : k \in Sound
      BY <1>2, <1>5, <1>6, UpTo
    <2>. QED BY <1>2, <2>1
  <1>8. iter = CHOOSE g : Table(NTagRules, g)
    BY <1>2
  <1>9. Table(NTagRules, iter)
    <2> HIDE DEF Table, iter
    <2>1. \E g : Table(NTagRules, g)
      BY <1>7
    <2>. QED BY <1>8, <2>1
  <1> HIDE DEF iter, Sound
  <1>10. \A s \in SUBSET (1..NTagRules) : iter[s] = Rest(iter, s)
    BY <1>9
  <1> DEFINE g == [k \in 0..NTagRules |-> iter[1..k]]
  <1>11. g[0] = a
    <2>1. 1..0 = {} /\ {} \in SUBSET (1..NTagRules)
      OBVIOUS
    <2>2. iter[{}] = a
      BY <1>4, <1>10, <2>1
    <2>3. 0 \in 0..NTagRules
      BY <1>2
    <2>. QED BY <2>1, <2>2, <2>3
  <1>12. ASSUME NEW k \in 0..(NTagRules - 1)
         PROVE  g[k + 1] = Dealt(g[k], seq[k + 1])
    <2>1. /\ 1..(k + 1) \subseteq 1..NTagRules /\ k + 1 \in 1..(k + 1)
          /\ k \in Nat /\ k \in 0..NTagRules /\ k + 1 \in 0..NTagRules
      BY <1>2
    <2>2. Max(1..(k + 1)) = k + 1
      BY <2>1, MaxIs
    <2>3. (1..(k + 1)) \ {k + 1} = 1..k
      BY <2>1
    <2>4. iter[1..(k + 1)] = Rest(iter, 1..(k + 1)) /\ 1..(k + 1) # {}
      BY <1>10, <2>1
    <2>5. iter[1..(k + 1)] = Dealt(iter[1..k], seq[k + 1])
      BY <1>4, <2>2, <2>3, <2>4
    <2>. QED BY <2>1, <2>5
  <1>13. Cleared(a, d) = g[NTagRules]
    BY <1>1, <1>2
  <1> HIDE DEF g
  <1>14. \A k \in 0..(NTagRules - 1) : k + 1 \in TagRules /\ seq[k + 1] = k + 1
    BY <1>2 DEF TagRules, seq
  <1>15. ASSUME NEW k \in 0..(NTagRules - 1)
         PROVE  g[k + 1] = (IF /\ k + 1 \in Documented(a, d) /\ ~Unstable(k + 1)
                          /\ ~Matches(g[k], k + 1) /\ g[k].state[k + 1].active
                       THEN Ended(g[k], k + 1) ELSE g[k])
    BY <1>12, <1>14 DEF Dealt
  <1>. QED BY <1>11, <1>13, <1>15

----------------------------------------------------------------------------
(* A pass.                                                                 *)

\* A rule of whose filters no tag came or went.
Quiet(c, r) == Filters(r) \cap c.produced.forms = {}

LEMMA QuietMatches ==
    ASSUME rule \in RuleSets, NEW b, NEW c, Reports(b, c), NEW r \in TagRules, Quiet(c, r)
    PROVE  Quiet(b, r) /\ (Matches(b, r) <=> Matches(c, r))
  <1>1. Filters(r) \subseteq Tags
    BY RuleIs
  <1>2. \A t \in Filters(r) : Has(b, t) <=> Has(c, t)
    BY <1>1 DEF Reports, Quiet, Has
  <1>3. \A t \in rule[r].needs : Has(b, t) <=> Has(c, t)
    BY <1>2 DEF Filters
  <1>4. \A t \in rule[r].bans : Has(b, t) <=> Has(c, t)
    BY <1>2 DEF Filters
  <1>5. Matches(b, r) <=> Matches(c, r)
    BY <1>3, <1>4 DEF Matches
  <1>. QED BY <1>5 DEF Quiet, Reports

\* The rules that match no longer end; what they take back may decide on others.
LEMMA ClearedIs ==
    ASSUME rule \in RuleSets, NEW a, ActorWell(a), Reporting(a), NEW d
    PROVE  /\ ActorWell(Cleared(a, d)) /\ Reports(a, Cleared(a, d))
           /\ \A r \in TagRules : Quiet(Cleared(a, d), r) =>
                 (Cleared(a, d).state[r].active <=>
                    /\ a.state[r].active
                    /\ ~(r \in Documented(a, d) /\ ~Unstable(r) /\ ~Matches(a, r)))
  <1>1. PICK g : /\ g[0] = a /\ Cleared(a, d) = g[NTagRules]
                 /\ \A k \in 0..(NTagRules - 1) : g[k + 1] =
                      (IF /\ k + 1 \in Documented(a, d) /\ ~Unstable(k + 1)
                          /\ ~Matches(g[k], k + 1) /\ g[k].state[k + 1].active
                       THEN Ended(g[k], k + 1) ELSE g[k])
    BY ClearedChain
  <1> DEFINE Ends(r) == r \in Documented(a, d) /\ ~Unstable(r) /\ ~Matches(a, r)
             Good(k) == /\ ActorWell(g[k]) /\ Reports(a, g[k])
                        /\ \A r \in TagRules : r > k => g[k].state[r] = a.state[r]
                        /\ \A r \in TagRules : r <= k /\ Quiet(g[k], r) =>
                              (g[k].state[r].active <=> a.state[r].active /\ ~Ends(r))
             S == {k \in 0..NTagRules : Good(k)}
  <1>2. NTagRules \in Nat /\ TagRules = 1..NTagRules
    BY CascadeAssumption DEF TagRules
  <1>3. Good(0)
    <2>1. Reports(a, a)
      BY SameReports
    <2>2. \A r \in TagRules : ~(r <= 0)
      BY <1>2
    <2>. QED BY <1>1, <2>1, <2>2
  <1>4. ASSUME NEW k \in 0..(NTagRules - 1), Good(k)
        PROVE  Good(k + 1)
    <2> DEFINE b == g[k]
               c == g[k + 1]
               q == k + 1
    <2>1. /\ ActorWell(b) /\ Reports(a, b) /\ Reporting(b)
          /\ \A r \in TagRules : r > k => b.state[r] = a.state[r]
          /\ \A r \in TagRules : r <= k /\ Quiet(b, r) =>
                              (b.state[r].active <=> a.state[r].active /\ ~Ends(r))
      BY <1>4 DEF Reports, Reporting
    <2>2. q \in TagRules /\ q > k /\ k \in Nat
      BY <1>2
    <2>3. c = (IF /\ q \in Documented(a, d) /\ ~Unstable(q) /\ ~Matches(b, q) /\ b.state[q].active
               THEN Ended(b, q) ELSE b)
      BY <1>1
    <2>4. \A r \in TagRules : (r > q => r # q /\ r > k) /\ (r <= q => r = q \/ r <= k)
      BY <1>2, <2>2
    <2> HIDE DEF b, c, q, Ends
    <2>5. CASE q \in Documented(a, d) /\ ~Unstable(q) /\ ~Matches(b, q) /\ b.state[q].active
      <3>1. /\ ActorWell(c) /\ Reports(b, c) /\ ~c.state[q].active
            /\ \A r \in TagRules \ {q} : c.state[r] = b.state[r]
        <4>1. c = Ended(b, q)
          BY <2>3, <2>5
        <4>. QED BY <2>1, <2>2, <2>5, <4>1, TagRuleEnds
      <3>2. Reports(a, c)
        BY <2>1, <3>1, ReportsOn
      <3>3. \A r \in TagRules : r > q => c.state[r] = a.state[r]
        BY <2>1, <2>4, <3>1
      <3>4. ASSUME NEW r \in TagRules, r <= q, Quiet(c, r)
            PROVE  c.state[r].active <=> a.state[r].active /\ ~Ends(r)
        <4>1. Quiet(b, r)
          BY <3>1, <3>4, QuietMatches
        <4>2. CASE r = q
          <5>1. Matches(a, q) <=> Matches(b, q)
            <6>1. Quiet(b, q)
              BY <4>1, <4>2
            <6>. QED BY <2>1, <2>2, <6>1, QuietMatches
          <5>2. Ends(q)
            BY <2>5, <5>1 DEF Ends
          <5>. QED BY <3>1, <4>2, <5>2
        <4>3. CASE r # q
          BY <2>1, <2>4, <3>1, <3>4, <4>1, <4>3
        <4>. QED BY <4>2, <4>3
      <3>. QED BY <3>1, <3>2, <3>3, <3>4 DEF c, q
    <2>6. CASE ~(q \in Documented(a, d) /\ ~Unstable(q) /\ ~Matches(b, q) /\ b.state[q].active)
      <3>1. c = b
        BY <2>3, <2>6
      <3>2. \A r \in TagRules : r > q => b.state[r] = a.state[r]
        BY <2>1, <2>4
      <3>3. ASSUME NEW r \in TagRules, r <= q, Quiet(b, r)
            PROVE  b.state[r].active <=> a.state[r].active /\ ~Ends(r)
        <4>1. CASE r = q
          <5>1. Matches(a, q) <=> Matches(b, q)
            <6>1. Quiet(b, q)
              BY <3>3, <4>1
            <6>. QED BY <2>1, <2>2, <6>1, QuietMatches
          <5>2. b.state[q] = a.state[q]
            BY <2>1, <2>2
          <5>. QED BY <2>6, <4>1, <5>1, <5>2 DEF Ends
        <4>2. CASE r # q
          BY <2>1, <2>4, <3>3, <4>2
        <4>. QED BY <4>1, <4>2
      <3>. QED BY <2>1, <3>1, <3>2, <3>3 DEF c, q
    <2>. QED BY <2>5, <2>6
  <1>5. Good(NTagRules)
    <2> HIDE DEF Good
    <2>1. 0 \in S
      BY <1>2, <1>3
    <2>2. \A k \in 0..(NTagRules - 1) : k \in S => k + 1 \in S
      BY <1>2, <1>4
    <2> HIDE DEF S
    <2>3. \A k \in 0..NTagRules : k \in S
      BY <1>2, <2>1, <2>2, UpTo
    <2>4. NTagRules \in S
      BY <1>2, <2>3
    <2>. QED BY <2>4 DEF S
  <1>6. \A r \in TagRules : r <= NTagRules
    BY <1>2
  <1>. QED BY <1>1, <1>5, <1>6

\* The rules of a phase that match when it begins are active at its end.
LEMMA PhaseIs ==
    ASSUME rule \in RuleSets, NEW a, ActorWell(a), Reporting(a), NEW S,
           NEW won \in SUBSET {r \in TagRules : rule[r].gives # {}}
    PROVE  /\ ActorWell(PhaseApplied(a, S, won)) /\ Reports(a, PhaseApplied(a, S, won))
           /\ \A r \in TagRules : PhaseApplied(a, S, won).state[r].active <=>
                                     a.state[r].active \/ (r \in S /\ Matches(a, r))
  <1>1. PICK g : /\ g[0] = a /\ PhaseApplied(a, S, won) = g[NTagRules]
                 /\ \A k \in 0..(NTagRules - 1) : g[k + 1] =
                      (IF k + 1 \in S /\ Matches(a, k + 1)
                       THEN Activated(g[k], k + 1, k + 1 \in won) ELSE g[k])
    BY PhaseChain
  <1> DEFINE Starts(r) == r \in S /\ Matches(a, r)
             Good(k) == /\ ActorWell(g[k]) /\ Reports(a, g[k])
                        /\ \A r \in TagRules : r > k => g[k].state[r] = a.state[r]
                        /\ \A r \in TagRules : r <= k =>
                              (g[k].state[r].active <=> a.state[r].active \/ Starts(r))
             T == {k \in 0..NTagRules : Good(k)}
  <1>2. NTagRules \in Nat /\ TagRules = 1..NTagRules
    BY CascadeAssumption DEF TagRules
  <1>3. Good(0)
    <2>1. Reports(a, a)
      BY SameReports
    <2>2. \A r \in TagRules : ~(r <= 0)
      BY <1>2
    <2>. QED BY <1>1, <2>1, <2>2
  <1>4. ASSUME NEW k \in 0..(NTagRules - 1), Good(k)
        PROVE  Good(k + 1)
    <2> DEFINE b == g[k]
               c == g[k + 1]
               q == k + 1
    <2>1. /\ ActorWell(b) /\ Reports(a, b) /\ Reporting(b)
          /\ \A r \in TagRules : r > k => b.state[r] = a.state[r]
          /\ \A r \in TagRules : r <= k =>
                              (b.state[r].active <=> a.state[r].active \/ Starts(r))
      BY <1>4 DEF Reports, Reporting
    <2>2. q \in TagRules /\ q > k /\ k \in Nat
      BY <1>2
    <2>3. c = (IF Starts(q) THEN Activated(b, q, q \in won) ELSE b)
      BY <1>1
    <2>4. \A r \in TagRules : (r > q => r # q /\ r > k) /\ (r <= q => r = q \/ r <= k)
      BY <1>2, <2>2
    <2> HIDE DEF b, c, q, Starts
    <2>5. CASE Starts(q)
      <3>1. /\ ActorWell(c) /\ Reports(b, c) /\ c.state[q].active
            /\ \A r \in TagRules \ {q} : c.state[r] = b.state[r]
        <4>1. c = Activated(b, q, q \in won)
          BY <2>3, <2>5
        <4>2. (q \in won) \in BOOLEAN /\ (q \in won => rule[q].gives # {})
          OBVIOUS
        <4>3. \A w \in BOOLEAN : (w => rule[q].gives # {}) =>
                 /\ ActorWell(Activated(b, q, w)) /\ Reports(b, Activated(b, q, w))
                 /\ Activated(b, q, w).state[q].active
                 /\ \A r \in TagRules \ {q} : Activated(b, q, w).state[r] = b.state[r]
          BY <2>1, <2>2, ActivatedIs
        <4> DEFINE w == q \in won
        <4>4. w \in BOOLEAN /\ (w => rule[q].gives # {}) /\ c = Activated(b, q, w)
          BY <4>1, <4>2
        <4> HIDE DEF w
        <4>. QED BY <4>3, <4>4
      <3>2. Reports(a, c)
        BY <2>1, <3>1, ReportsOn
      <3>3. \A r \in TagRules : r > q => c.state[r] = a.state[r]
        BY <2>1, <2>4, <3>1
      <3>4. \A r \in TagRules : r <= q =>
                (c.state[r].active <=> a.state[r].active \/ Starts(r))
        <4>1. \A r \in TagRules : r <= q /\ r # q =>
                (c.state[r].active <=> a.state[r].active \/ Starts(r))
          BY <2>1, <2>4, <3>1
        <4>. QED BY <2>5, <3>1, <4>1
      <3>. QED BY <3>1, <3>2, <3>3, <3>4 DEF c, q
    <2>6. CASE ~Starts(q)
      <3>1. c = b
        BY <2>3, <2>6
      <3>2. \A r \in TagRules : r > q => b.state[r] = a.state[r]
        BY <2>1, <2>4
      <3>3. b.state[q].active <=> a.state[q].active \/ Starts(q)
        BY <2>1, <2>2, <2>6
      <3>4. \A r \in TagRules : r <= q =>
                (b.state[r].active <=> a.state[r].active \/ Starts(r))
        BY <2>1, <2>4, <3>3
      <3>. QED BY <2>1, <3>1, <3>2, <3>4 DEF c, q
    <2>. QED BY <2>5, <2>6
  <1>5. Good(NTagRules)
    <2> HIDE DEF Good
    <2>1. 0 \in T
      BY <1>2, <1>3
    <2>2. \A k \in 0..(NTagRules - 1) : k \in T => k + 1 \in T
      BY <1>2, <1>4
    <2> HIDE DEF T
    <2>3. \A k \in 0..NTagRules : k \in T
      BY <1>2, <2>1, <2>2, UpTo
    <2>4. NTagRules \in T
      BY <1>2, <2>3
    <2>. QED BY <2>4 DEF T
  <1>6. \A r \in TagRules : r <= NTagRules
    BY <1>2
  <1>. QED BY <1>1, <1>5, <1>6

\* The change d has rule r looked at, as candidate or as one that is documented.
Due(a, r, d) ==
    \/ IsFull(d)
    \/ /\ Mask(r) \cap d.mask # {}
       /\ \/ a.state[r].documented \/ d.forms = {}
          \/ "tag" \in d.mask /\ Filters(r) \cap d.forms # {}

\* A pass looks at the rules that are due; whether the others match stays as it was,
\* unless it changed a tag that they filter by.
LEMMA PassedIs ==
    ASSUME rule \in RuleSets, NEW a, ActorWell(a), NEW d,
           NEW won \in SUBSET {r \in TagRules : rule[r].gives # {}}
    PROVE  /\ ActorWell(Passed(a, d, won)) /\ Reporting(Passed(a, d, won))
           /\ \A r \in TagRules : a.state[r].documented => Passed(a, d, won).state[r].documented
           /\ \A r \in TagRules :
                 /\ ~Unstable(r) /\ Quiet(Passed(a, d, won), r)
                 /\ (a.state[r].active <=> Matches(a, r)) \/ Due(a, r, d)
                 => (Passed(a, d, won).state[r].active <=> Matches(Passed(a, d, won), r))
  <1> DEFINE o == [a EXCEPT !.produced = Nothing]
             c == Cleared(o, d)
             S == ToProcess(c, d)
             s == PhaseApplied(c, {r \in S : ~HasFilters(r)}, won)
             p == PhaseApplied(s, {r \in S : HasFilters(r)}, won)
  <1>1. Passed(a, d, won) = p
    BY DEF Passed
  <1>2. o.state = a.state /\ o.held = a.held /\ o.ready = a.ready /\ o.owners = a.owners
        /\ o.produced = Nothing /\ o \in ActorSet
    BY DEF ActorWell, ActorSet, Nothing, Change
  <1> HIDE DEF o
  <1>3. OwnersWell(o) /\ Known(o)
    BY <1>2 DEF ActorWell, OwnersWell, Known, Owns, Lasts
  <1>4. ActorWell(o) /\ Reporting(o)
    BY <1>2, <1>3 DEF ActorWell, Reporting, Nothing
  <1>5. \A r \in TagRules : Matches(o, r) <=> Matches(a, r)
    BY <1>2 DEF Matches, Has
  <1> HIDE DEF c
  <1>6. /\ ActorWell(c) /\ Reports(o, c) /\ Reporting(c)
        /\ \A r \in TagRules : Quiet(c, r) =>
              (c.state[r].active <=>
                 o.state[r].active /\ ~(r \in Documented(o, d) /\ ~Unstable(r) /\ ~Matches(o, r)))
    BY <1>4, ClearedIs DEF c, Reports, Reporting
  <1> HIDE DEF S, s
  <1>7. /\ ActorWell(s) /\ Reports(c, s) /\ Reporting(s)
        /\ \A r \in TagRules : s.state[r].active <=>
              c.state[r].active \/ (r \in S /\ ~HasFilters(r) /\ Matches(c, r))
    <2> DEFINE R == {r \in S : ~HasFilters(r)}
    <2>1. s = PhaseApplied(c, R, won)
      BY DEF s
    <2> HIDE DEF R
    <2>2. /\ ActorWell(s) /\ Reports(c, s)
          /\ \A r \in TagRules : s.state[r].active <=>
                c.state[r].active \/ (r \in R /\ Matches(c, r))
      BY <1>6, <2>1, PhaseIs
    <2>. QED BY <2>2 DEF R, Reports, Reporting
  <1> HIDE DEF p
  <1>8. /\ ActorWell(p) /\ Reports(s, p) /\ Reporting(p)
        /\ \A r \in TagRules : p.state[r].active <=>
              s.state[r].active \/ (r \in S /\ HasFilters(r) /\ Matches(s, r))
    <2> DEFINE R == {r \in S : HasFilters(r)}
    <2>1. p = PhaseApplied(s, R, won)
      BY DEF p
    <2> HIDE DEF R
    <2>2. /\ ActorWell(p) /\ Reports(s, p)
          /\ \A r \in TagRules : p.state[r].active <=>
                s.state[r].active \/ (r \in R /\ Matches(s, r))
      BY <1>7, <2>1, PhaseIs
    <2>. QED BY <2>2 DEF R, Reports, Reporting
  <1>9. \A r \in TagRules : a.state[r].documented =>
              c.state[r].documented /\ p.state[r].documented
    BY <1>2, <1>6, <1>7, <1>8 DEF Reports
  <1>10. ASSUME NEW r \in TagRules, ~Unstable(r), Quiet(p, r),
                (a.state[r].active <=> Matches(a, r)) \/ Due(a, r, d)
         PROVE  p.state[r].active <=> Matches(p, r)
    <2>1. Quiet(s, r) /\ (Matches(p, r) <=> Matches(s, r))
      BY <1>8, <1>10, QuietMatches
    <2>2. Quiet(c, r) /\ (Matches(s, r) <=> Matches(c, r))
      BY <1>7, <2>1, QuietMatches
    <2>3. Matches(c, r) <=> Matches(a, r)
      <3>1. Matches(o, r) <=> Matches(c, r)
        BY <1>6, <2>2, QuietMatches
      <3>. QED BY <1>5, <3>1
    <2>4. p.state[r].active <=> c.state[r].active \/ (r \in S /\ Matches(a, r))
      BY <1>7, <1>8, <2>1, <2>2, <2>3
    <2>5. c.state[r].active <=>
             a.state[r].active /\ ~(r \in Documented(a, d) /\ ~Matches(a, r))
      <3>1. Documented(o, d) = Documented(a, d)
        BY <1>2 DEF Documented
      <3>. QED BY <1>2, <1>5, <1>6, <1>10, <2>2, <3>1
    <2>6. CASE a.state[r].active <=> Matches(a, r)
      BY <2>1, <2>2, <2>3, <2>4, <2>5, <2>6
    <2>7. CASE Due(a, r, d) /\ Matches(a, r)
      <3>1. r \in S
        <4>1. CASE IsFull(d)
          <5>1. Matches(c, r)
            BY <2>3, <2>7
          <5>2. r \in FullCandidates(c)
            BY <5>1 DEF FullCandidates, Matches, Filters
          <5>. QED BY <1>10, <4>1, <5>2 DEF S, ToProcess, Candidates
        <4>2. CASE ~IsFull(d) /\ a.state[r].documented
          <5>1. Mask(r) \cap d.mask # {}
            BY <2>7, <4>2 DEF Due
          <5>2. r \in Documented(c, d)
            BY <1>9, <4>2, <5>1 DEF Documented
          <5>. QED BY <1>10, <5>2 DEF S, ToProcess
        <4>3. CASE ~IsFull(d) /\ ~a.state[r].documented
          <5>1. r \in CandidatesOf(d)
            BY <2>7, <4>3 DEF Due, CandidatesOf
          <5>. QED BY <1>10, <4>3, <5>1 DEF S, ToProcess, Candidates
        <4>. QED BY <4>1, <4>2, <4>3
      <3>. QED BY <2>1, <2>2, <2>3, <2>4, <2>7, <3>1
    <2>8. CASE Due(a, r, d) /\ ~Matches(a, r)
      <3>1. a.state[r].active => a.state[r].documented
        BY DEF ActorWell, Known
      <3>2. a.state[r].active => r \in Documented(a, d)
        BY <2>8, <3>1 DEF Due, Documented
      <3>. QED BY <2>1, <2>2, <2>3, <2>4, <2>5, <2>8, <3>2
    <2>. QED BY <1>10, <2>6, <2>7, <2>8
  <1>. QED BY <1>1, <1>8, <1>9, <1>10

----------------------------------------------------------------------------
(* The invariants.                                                         *)

Cascade == [on : BOOLEAN, pending : Change,
            seen : SUBSET ([TagRules -> BOOLEAN \X BOOLEAN \X BOOLEAN \X BOOLEAN]
                           \X (SUBSET Tags) \X BOOLEAN),
            passes : Nat, disturbed : BOOLEAN]

ActorIsWell ==
    /\ rule \in RuleSets /\ combat \in BOOLEAN /\ native \in SUBSET NativeTags
    /\ queue \in Change /\ cascade \in Cascade
    /\ ActorWell(actor) /\ actor.produced = Nothing

\* Whether a rule matches the actor with the native tags n: those of the moment may
\* have changed since the actor was last evaluated.
HadTag(n, a, t) == t \in n \cup a.held
MatchesWith(n, a, r) ==
    /\ combat \in rule[r].combat
    /\ rule[r].needs = {} \/ \E t \in rule[r].needs : HadTag(n, a, t)
    /\ \A t \in rule[r].bans : ~HadTag(n, a, t)

Right(n, a, r) == a.state[r].active <=> MatchesWith(n, a, r)

\* A rule that is active without matching, or the reverse, is still looked at: by the
\* evaluation in progress or by the one that waits.
WillBeSeen(n) ==
    \A r \in TagRules : \/ Unstable(r) \/ Right(n, actor, r)
                        \/ cascade.on /\ Due(actor, r, cascade.pending)
                        \/ Due(actor, r, queue)

NoneForgotten ==
    \/ blurred \/ stopped # {} \/ print = {}
    \/ \E n : print = {n} /\ (cascade.on => n = native) /\ WillBeSeen(n)

LEMMA MatchesIs ==
    ASSUME NEW a, NEW r
    PROVE  MatchesWith(native, a, r) <=> Matches(a, r)
  BY DEF MatchesWith, Matches, HadTag, Has

LEMMA MergedIs ==
    ASSUME NEW d \in Change, NEW e \in Change
    PROVE  /\ Merged(d, e) \in Change
           /\ Merged(d, e).mask = d.mask \cup e.mask /\ Merged(d, e).forms = d.forms \cup e.forms
  BY DEF Merged, Change

LEMMA ChangesAre ==
    /\ Nothing \in Change /\ Full \in Change /\ For("combat", {}) \in Change
    /\ For("inventory", {"item"}) \in Change /\ [mask |-> {"static", "tag"}, forms |-> {}] \in Change
  BY DEF Nothing, Full, For, Change, Bits

\* What is due stays due, whatever is merged with it.
LEMMA DueStays ==
    ASSUME NEW a, NEW r, NEW d \in Change, NEW e \in Change, Due(a, r, d), ~Blurs(d, e)
    PROVE  Due(a, r, Merged(d, e))
  <1> DEFINE m == Merged(d, e)
  <1>1. m.mask = d.mask \cup e.mask /\ m.forms = d.forms \cup e.forms /\ m \in Change
    BY MergedIs
  <1>2. IsFull(d) => IsFull(m)
    BY <1>1 DEF IsFull, Change
  <1>3. CASE ~IsFull(d)
    <2>1. Mask(r) \cap d.mask # {} /\ Mask(r) \cap m.mask # {}
      BY <1>1, <1>3 DEF Due
    <2>2. d.forms = {} => IsFull(m) \/ m.forms = {}
      BY <1>1, <2>1 DEF Blurs, AnyForm
    <2> HIDE DEF m
    <2>3. "tag" \in d.mask /\ Filters(r) \cap d.forms # {} =>
             "tag" \in m.mask /\ Filters(r) \cap m.forms # {}
      BY <1>1
    <2>4. Due(a, r, m)
      BY <1>3, <2>1, <2>2, <2>3 DEF Due
    <2>. QED BY <2>4 DEF m
  <1>. QED BY <1>2, <1>3 DEF Due

\* A change of any form has the rules looked at that depend on its kind.
LEMMA AnyFormIsDue ==
    ASSUME NEW a, NEW r, NEW d \in Change, NEW e \in Change, e.forms = {}, ~Blurs(d, e),
           Mask(r) \cap e.mask # {}
    PROVE  Due(a, r, Merged(d, e))
  <1>0. Merged(d, e).mask = d.mask \cup e.mask /\ Merged(d, e).forms = d.forms \cup e.forms
    BY MergedIs
  <1>1. Merged(d, e).forms = d.forms /\ Mask(r) \cap Merged(d, e).mask # {}
    BY <1>0
  <1>2. IsFull(Merged(d, e)) \/ Merged(d, e).forms = {}
    <2>1. d.forms # {} => AnyForm(e)
      <3>1. e.mask # {}
        OBVIOUS
      <3>. QED BY <3>1 DEF AnyForm
    <2>. QED BY <1>1, <2>1 DEF Blurs
  <1>. QED BY <1>1, <1>2 DEF Due

LEMMA AllDependOnTheBase ==
    ASSUME NEW r
    PROVE  Mask(r) \cap {"static", "tag"} # {}
  BY DEF Mask

\* Records that are read by name only.
LEMMA SameDue ==
    ASSUME NEW a, NEW b, NEW r \in TagRules, NEW d, Due(a, r, d),
           a.state[r].documented => b.state[r].documented
    PROVE  Due(b, r, d)
  BY DEF Due

LEMMA SignatureIs ==
    ASSUME ActorIsWell, NEW a, ActorWell(a)
    PROVE  Signature(a) \in [TagRules -> BOOLEAN \X BOOLEAN \X BOOLEAN \X BOOLEAN]
                            \X (SUBSET Tags) \X BOOLEAN
  <1>1. /\ a.held \in SUBSET Tags /\ combat \in BOOLEAN
        /\ \A r \in TagRules : a.state[r] \in RuleRecords
    BY DEF ActorWell, ActorSet, ActorIsWell
  <1> DEFINE h == [r \in TagRules |-> <<a.state[r].documented, a.state[r].active,
                                       a.state[r].canReroll, a.state[r].keyed>>]
  <1>2. h \in [TagRules -> BOOLEAN \X BOOLEAN \X BOOLEAN \X BOOLEAN]
    BY <1>1 DEF RuleRecords
  <1>3. Signature(a) = <<h, a.held, combat>>
    BY DEF Signature
  <1> HIDE DEF h
  <1>. QED BY <1>1, <1>2, <1>3

LEMMA ActorIsWellInit ==
    ASSUME CascadeInit
    PROVE  ActorIsWell /\ NoneForgotten
  <1> DEFINE records == [r \in TagRules |-> NoActivation]
             owners == [t \in Tags |-> {}]
  <1>1. records \in [TagRules -> RuleRecords] /\ owners \in [Tags -> SUBSET (TagRules \cup {Legacy})]
    BY DEF NoActivation, RuleRecords
  <1>2. /\ \A r \in TagRules : /\ records[r].keyed = FALSE /\ records[r].active = FALSE
                               /\ records[r].canReroll = TRUE
    BY DEF NoActivation
  <1>3. actor = [state |-> records, held |-> {}, ready |-> FALSE, owners |-> owners, produced |-> Nothing]
    BY DEF CascadeInit
  <1> HIDE DEF records, owners
  <1>4. /\ actor.state = records /\ actor.held = {} /\ actor.ready = FALSE /\ actor.owners = owners
        /\ actor.produced = Nothing /\ actor \in ActorSet
    BY <1>1, <1>3, ChangesAre DEF ActorSet
  <1>5. OwnersWell(actor) /\ Known(actor)
    BY <1>2, <1>4 DEF OwnersWell, Known
  <1>6. cascade \in Cascade
    BY ChangesAre DEF CascadeInit, NoCascade, Cascade
  <1>7. NoneForgotten
    BY DEF CascadeInit, NoneForgotten
  <1>. QED BY <1>4, <1>5, <1>6, <1>7, ChangesAre DEF CascadeInit, ActorIsWell, ActorWell

\* An actor of which only the change that it produced is put away.
LEMMA PutAway ==
    ASSUME NEW a, ActorWell(a), NEW b, b = [a EXCEPT !.produced = Nothing]
    PROVE  /\ ActorWell(b) /\ b.produced = Nothing /\ b.state = a.state /\ b.held = a.held
           /\ \A r : Matches(a, r) <=> Matches(b, r)
  <1>1. b.state = a.state /\ b.held = a.held /\ b.ready = a.ready /\ b.owners = a.owners
        /\ b.produced = Nothing /\ b \in ActorSet
    BY ChangesAre DEF ActorWell, ActorSet
  <1>2. OwnersWell(b) /\ Known(b)
    BY <1>1 DEF ActorWell, OwnersWell, Known, Owns, Lasts
  <1>. QED BY <1>1, <1>2 DEF ActorWell, Matches, Has

LEMMA BeginKeeps ==
    ASSUME ActorIsWell, NoneForgotten, Begin
    PROVE  ActorIsWell' /\ NoneForgotten'
  <1> DEFINE all == [mask |-> {"static", "tag"}, forms |-> {}]
             base == IF print = {native} THEN Nothing ELSE all
  <1>1. base \in Change /\ all \in Change /\ all.mask = {"static", "tag"} /\ all.forms = {}
    BY ChangesAre
  <1>2. /\ cascade' = [on |-> TRUE, pending |-> Merged(queue, base),
                       seen |-> {Signature(actor)}, passes |-> 0, disturbed |-> FALSE]
        /\ blurred' = (blurred \/ Blurs(queue, base)) /\ print' = {native} /\ queue' = Nothing
        /\ UNCHANGED <<rule, unstable, native, combat, actor, stopped>> /\ ~cascade.on
    BY DEF Begin
  <1>a. print = {native} => base = Nothing
    OBVIOUS
  <1>b. print # {native} => base = all
    OBVIOUS
  <1> HIDE DEF base
  <1>3. Merged(queue, base) \in Change
    BY <1>1, MergedIs DEF ActorIsWell
  <1>4. cascade' \in Cascade
    BY <1>2, <1>3, SignatureIs DEF ActorIsWell, Cascade
  <1>5. ActorIsWell'
    BY <1>2, <1>4, ChangesAre DEF ActorIsWell, ActorWell, OwnersWell, Known, Owns, Lasts, Gave
  <1>6. ASSUME ~blurred', stopped = {}
        PROVE  \A r \in TagRules : Unstable(r) \/ Right(native, actor, r)
                                     \/ Due(actor, r, Merged(queue, base))
    <2>1. ~blurred /\ ~Blurs(queue, base)
      BY <1>2, <1>6
    <2>2. CASE print # {native}
      <3>1. \A r \in TagRules : Due(actor, r, Merged(queue, all))
        BY <1>1, <1>b, <2>1, <2>2, AnyFormIsDue, AllDependOnTheBase DEF ActorIsWell
      <3>. QED BY <1>b, <2>2, <3>1
    <2>3. CASE print = {native}
      <3>1. WillBeSeen(native)
        <4>1. print # {}
          BY <2>3
        <4>2. PICK n : print = {n} /\ WillBeSeen(n)
          BY <1>6, <2>1, <4>1 DEF NoneForgotten
        <4>3. n = native
          BY <2>3, <4>2
        <4>. QED BY <4>2, <4>3
      <3>2. \A r \in TagRules : Due(actor, r, queue) => Due(actor, r, Merged(queue, base))
        BY <1>1, <2>1, DueStays DEF ActorIsWell
      <3>. QED BY <1>2, <3>1, <3>2 DEF WillBeSeen
    <2>. QED BY <2>2, <2>3
  <1>7. NoneForgotten'
    <2>1. CASE blurred' \/ stopped # {}
      BY <1>2, <2>1 DEF NoneForgotten
    <2>2. CASE ~blurred' /\ stopped = {}
      <3>1. WillBeSeen(native)'
        <4>1. \A r \in TagRules : Unstable(r) \/ Right(native, actor, r)
                                     \/ Due(actor, r, Merged(queue, base))
          BY <1>6, <2>2
        <4>2. cascade'.on /\ cascade'.pending = Merged(queue, base)
          BY <1>2
        <4>3. /\ rule' = rule /\ unstable' = unstable /\ native' = native /\ combat' = combat
              /\ actor' = actor
          BY <1>2
        <4>4. \A r \in TagRules : (Unstable(r)' <=> Unstable(r))
          BY <4>3 DEF Unstable
        <4>5. \A r \in TagRules : (Right(native, actor, r)' <=> Right(native, actor, r))
          BY <4>3 DEF Right, MatchesWith, HadTag
        <4>6. \A r \in TagRules : \A x : (Due(actor, r, x)' <=> Due(actor, r, x))
          BY <4>3 DEF Due, Mask, ChecksCombat, HasFilters, Filters
        <4>7. PICK d : d = Merged(queue, base)
          OBVIOUS
        <4>8. ASSUME NEW r \in TagRules
              PROVE  (\/ Unstable(r) \/ Right(native, actor, r)
                      \/ cascade.on /\ Due(actor, r, cascade.pending))'
          <5>1. Unstable(r) \/ Right(native, actor, r) \/ Due(actor, r, d)
            BY <4>1, <4>7
          <5>2. cascade'.on /\ cascade'.pending = d
            BY <4>2, <4>7
          <5>3. (Due(actor, r, d))' => Due(actor, r, cascade.pending)'
            BY <5>2 DEF Due, IsFull
          <5>. QED BY <4>4, <4>5, <4>6, <5>1, <5>2, <5>3
        <4>. QED BY <4>8 DEF WillBeSeen
      <3>. QED BY <1>2, <3>1 DEF NoneForgotten
    <2>. QED BY <2>1, <2>2
  <1>. QED BY <1>5, <1>7

LEMMA PassKeeps ==
    ASSUME ActorIsWell, NoneForgotten, Pass
    PROVE  ActorIsWell' /\ NoneForgotten'
  <1>1. PICK won \in SUBSET {r \in TagRules : rule[r].gives # {}} :
        LET after == Passed(actor, cascade.pending, won)
            settled == after.produced = Nothing
            seen == Signature(after) \in cascade.seen
            last == cascade.passes + 1 = MaxPasses
        IN /\ actor' = [after EXCEPT !.produced = Nothing]
           /\ cascade' = IF settled \/ seen \/ last THEN NoCascade
                         ELSE [cascade EXCEPT !.pending = after.produced, !.passes = @ + 1,
                                              !.seen = @ \cup {Signature(after)}]
           /\ stopped' = IF ~settled /\ (seen \/ last) THEN stopped \cup {cascade.disturbed}
                       ELSE stopped
    BY DEF Pass
  <1>2. PICK after : after = Passed(actor, cascade.pending, won)
    OBVIOUS
  <1> DEFINE settled == after.produced = Nothing
             seen == Signature(after) \in cascade.seen
             last == cascade.passes + 1 = MaxPasses
  <1>3. /\ actor' = [after EXCEPT !.produced = Nothing]
        /\ settled \/ seen \/ last => cascade' = NoCascade
        /\ ~(settled \/ seen \/ last) =>
              cascade' = [cascade EXCEPT !.pending = after.produced, !.passes = @ + 1,
                                         !.seen = @ \cup {Signature(after)}]
        /\ ~settled /\ (seen \/ last) => stopped' # {}
        /\ ~(~settled /\ (seen \/ last)) => stopped' = stopped
        /\ stopped # {} => stopped' # {}
    BY <1>1, <1>2
  <1>4. cascade.on /\ UNCHANGED <<rule, unstable, native, print, combat, queue, blurred, events>>
    BY DEF Pass
  <1>5. /\ ActorWell(after) /\ Reporting(after)
        /\ \A r \in TagRules : actor.state[r].documented => after.state[r].documented
        /\ \A r \in TagRules :
              /\ ~Unstable(r) /\ Quiet(after, r)
              /\ (actor.state[r].active <=> Matches(actor, r)) \/ Due(actor, r, cascade.pending)
              => (after.state[r].active <=> Matches(after, r))
    <2> DEFINE d == cascade.pending
    <2>1. after = Passed(actor, d, won)
      BY <1>2
    <2>2. ActorWell(actor) /\ rule \in RuleSets
      BY DEF ActorIsWell
    <2> HIDE DEF d
    <2>3. /\ ActorWell(after) /\ Reporting(after)
          /\ \A r \in TagRules : actor.state[r].documented => after.state[r].documented
          /\ \A r \in TagRules :
                /\ ~Unstable(r) /\ Quiet(after, r)
                /\ (actor.state[r].active <=> Matches(actor, r)) \/ Due(actor, r, d)
                => (after.state[r].active <=> Matches(after, r))
      BY <2>1, <2>2, PassedIs
    <2>. QED BY <2>3 DEF d
  <1> HIDE DEF settled, seen, last
  <1>6. /\ ActorWell(actor') /\ actor'.produced = Nothing /\ actor'.state = after.state
        /\ actor'.held = after.held
    BY <1>3, <1>5, PutAway
  <1>7. after.produced \in Change
    BY <1>5 DEF ActorWell, ActorSet
  <1>8. cascade' \in Cascade
    <2>1. CASE settled \/ seen \/ last
      <3>1. cascade' = NoCascade
        BY <1>3, <2>1
      <3>. QED BY <3>1, ChangesAre DEF NoCascade, Cascade
    <2>2. CASE ~(settled \/ seen \/ last)
      <3>1. cascade' = [cascade EXCEPT !.pending = after.produced, !.passes = @ + 1,
                                         !.seen = @ \cup {Signature(after)}]
        BY <1>3, <2>2
      <3> DEFINE Signatures == [TagRules -> BOOLEAN \X BOOLEAN \X BOOLEAN \X BOOLEAN]
                               \X (SUBSET Tags) \X BOOLEAN
                 now == cascade.seen \cup {Signature(after)}
      <3>2. Signature(after) \in Signatures
        BY <1>5, SignatureIs
      <3>3. cascade \in [on : BOOLEAN, pending : Change, seen : SUBSET Signatures, passes : Nat,
                        disturbed : BOOLEAN]
        BY DEF ActorIsWell, Cascade
      <3> HIDE DEF Signatures
      <3>4. now \in SUBSET Signatures /\ cascade.passes + 1 \in Nat
        BY <3>2, <3>3
      <3>5. cascade' = [cascade EXCEPT !.pending = after.produced, !.passes = cascade.passes + 1,
                                       !.seen = now]
        BY <3>1, <3>3
      <3> HIDE DEF now
      <3>6. cascade' \in [on : BOOLEAN, pending : Change, seen : SUBSET Signatures, passes : Nat,
                        disturbed : BOOLEAN]
        BY <1>7, <3>3, <3>4, <3>5
      <3>. QED BY <3>6 DEF Cascade, Signatures
    <2>. QED BY <2>1, <2>2
  <1>9. ActorIsWell'
    <2>1. ActorWell(actor)'
      BY <1>4, <1>6 DEF ActorWell, OwnersWell, Known, Owns, Lasts, Gave
    <2>. QED BY <1>4, <1>6, <1>8, <2>1 DEF ActorIsWell
  <1>10. NoneForgotten'
    <2>1. CASE blurred \/ stopped' # {} \/ print = {}
      BY <1>4, <2>1 DEF NoneForgotten
    <2>2. CASE ~blurred /\ stopped' = {} /\ print # {}
      <3>1. print = {native} /\ WillBeSeen(native)
        BY <1>3, <1>4, <2>2 DEF NoneForgotten
      <3>2. ASSUME NEW r \in TagRules
            PROVE  (\/ Unstable(r) \/ Right(native, actor, r)
                    \/ cascade.on /\ Due(actor, r, cascade.pending)
                    \/ Due(actor, r, queue))'
        <4>1. /\ Unstable(r)' <=> Unstable(r)
              /\ Right(native, actor, r)' <=> (after.state[r].active <=> Matches(after, r))
          <5>1. (MatchesWith(native, actor, r))' <=> Matches(after, r)
            BY <1>4, <1>6 DEF MatchesWith, HadTag, Matches, Has
          <5>. QED BY <1>4, <1>6, <5>1 DEF Unstable, Right
        <4>2. CASE Unstable(r)
          BY <4>1, <4>2
        <4>3. CASE ~Unstable(r) /\ Due(actor, r, queue)
          <5>1. Due(actor, r, queue)'
            BY <1>4, <1>5, <1>6, <4>3 DEF Due, IsFull, Mask, ChecksCombat, HasFilters, Filters
          <5>. QED BY <5>1
        <4>4. CASE ~Unstable(r) /\ ~Due(actor, r, queue) /\ Quiet(after, r)
          <5>1. Right(native, actor, r) \/ Due(actor, r, cascade.pending)
            BY <3>1, <4>4 DEF WillBeSeen
          <5>2. (actor.state[r].active <=> Matches(actor, r)) \/ Due(actor, r, cascade.pending)
            BY <5>1, MatchesIs DEF Right
          <5>3. after.state[r].active <=> Matches(after, r)
            BY <1>5, <4>4, <5>2
          <5>. QED BY <4>1, <5>3
        <4>5. CASE ~Quiet(after, r)
          <5>1. Filters(r) \cap after.produced.forms # {}
            BY <4>5 DEF Quiet
          <5>2. after.produced.mask = {"tag"}
            BY <1>5, <5>1 DEF Reporting
          <5>3. ~settled
            BY <5>1 DEF settled, Nothing
          <5>4. cascade'.on /\ cascade'.pending = after.produced
            <6>1. cascade' = [cascade EXCEPT !.pending = after.produced, !.passes = @ + 1,
                                         !.seen = @ \cup {Signature(after)}]
              BY <1>3, <2>2, <5>3
            <6>. QED BY <1>4, <6>1 DEF ActorIsWell, Cascade
          <5>5. Mask(r) \cap after.produced.mask # {}
            BY <5>1, <5>2 DEF Mask, HasFilters
          <5>6. (Due(actor, r, after.produced))'
            BY <1>4, <5>1, <5>2, <5>5 DEF Due, IsFull, Mask, ChecksCombat, HasFilters, Filters
          <5>7. Due(actor, r, cascade.pending)'
            BY <5>4, <5>6 DEF Due, IsFull
          <5>. QED BY <5>4, <5>7
        <4>. QED BY <4>2, <4>3, <4>4, <4>5
      <3>3. WillBeSeen(native)'
        BY <3>2 DEF WillBeSeen
      <3>. QED BY <1>4, <3>1, <3>3 DEF NoneForgotten
    <2>. QED BY <2>1, <2>2
  <1>. QED BY <1>9, <1>10

\* What a change of the actor does to what will be seen.
LEMMA ScheduledIsSeen ==
    ASSUME ActorIsWell, NEW n, WillBeSeen(n), NEW e \in Change, queue' = Merged(queue, e),
           ~Blurs(queue, e), rule' = rule, unstable' = unstable, actor' = actor,
           cascade'.on = cascade.on, cascade'.pending = cascade.pending,
           \A r \in TagRules : (Right(n, actor, r) => Right(n, actor, r)')
                               \/ Due(actor, r, Merged(queue, e))
    PROVE  WillBeSeen(n)'
  <1>1. \A r \in TagRules : Due(actor, r, queue) => Due(actor, r, Merged(queue, e))
    BY DueStays DEF ActorIsWell
  <1>2. PICK d : d = Merged(queue, e)
    OBVIOUS
  <1>3. PICK p : p = cascade.pending
    OBVIOUS
  <1>4. \A r \in TagRules : \A x : (Due(actor, r, x)' <=> Due(actor, r, x))
    BY DEF Due, Mask, ChecksCombat, HasFilters, Filters
  <1>5. ASSUME NEW r \in TagRules
        PROVE  (\/ Unstable(r) \/ Right(n, actor, r)
                \/ cascade.on /\ Due(actor, r, cascade.pending)
                \/ Due(actor, r, queue))'
    <2>1. /\ Unstable(r)' <=> Unstable(r)
          /\ cascade'.on <=> cascade.on
      BY DEF Unstable
    <2>2. Due(actor, r, d) => Due(actor, r, queue)'
      <3>1. queue' = d
        BY <1>2
      <3>2. (Due(actor, r, d))' => Due(actor, r, queue)'
        BY <3>1 DEF Due, IsFull
      <3>. QED BY <1>4, <3>2
    <2>3. Due(actor, r, p) => Due(actor, r, cascade.pending)'
      <3>1. cascade'.pending = p
        BY <1>3
      <3>2. (Due(actor, r, p))' => Due(actor, r, cascade.pending)'
        BY <3>1 DEF Due, IsFull
      <3>. QED BY <1>4, <3>2
    <2>4. \/ Unstable(r) \/ Right(n, actor, r)
          \/ cascade.on /\ Due(actor, r, p)
          \/ Due(actor, r, queue)
      BY <1>3 DEF WillBeSeen
    <2>5. Due(actor, r, queue) => Due(actor, r, d)
      BY <1>1, <1>2
    <2>6. Right(n, actor, r) => Right(n, actor, r)' \/ Due(actor, r, d)
      BY <1>2
    <2>. QED BY <2>1, <2>2, <2>3, <2>4, <2>5, <2>6
  <1>. QED BY <1>5 DEF WillBeSeen

LEMMA EventKeeps ==
    ASSUME ActorIsWell, NoneForgotten,
           ChangeCombat \/ MoveItem \/ ReportBase \/ Reload \/ \E t \in NativeTags : ChangeNative(t)
    PROVE  ActorIsWell' /\ NoneForgotten'
  <1>w. ASSUME actor' = actor, rule' = rule
        PROVE  ActorWell(actor)' <=> ActorWell(actor)
    BY <1>w DEF ActorWell, OwnersWell, Known, Owns, Lasts, Gave
  <1>1. CASE ChangeCombat
    <2> DEFINE e == For("combat", {})
    <2>1. /\ combat' = ~combat /\ queue' = Merged(queue, e)
          /\ blurred' = (blurred \/ Blurs(queue, e))
          /\ cascade' = [cascade EXCEPT !.disturbed = cascade.on]
          /\ UNCHANGED <<rule, unstable, native, print, actor, stopped>>
      BY <1>1 DEF ChangeCombat, Schedule
    <2>2. e \in Change /\ e.mask = {"combat"} /\ e.forms = {}
      BY ChangesAre DEF For
    <2> HIDE DEF e
    <2>3. cascade' \in Cascade /\ cascade'.on = cascade.on /\ cascade'.pending = cascade.pending
      BY <2>1 DEF ActorIsWell, Cascade
    <2>4. Merged(queue, e) \in Change
      BY <2>2, MergedIs DEF ActorIsWell
    <2>5. ActorIsWell'
      BY <1>w, <2>1, <2>3, <2>4 DEF ActorIsWell
    <2>6. CASE blurred' \/ stopped # {} \/ print = {}
      BY <2>1, <2>5, <2>6 DEF NoneForgotten
    <2>7. CASE ~blurred' /\ stopped = {} /\ print # {}
      <3>1. ~blurred /\ ~Blurs(queue, e)
        BY <2>1, <2>7
      <3>2. PICK n : print = {n} /\ (cascade.on => n = native) /\ WillBeSeen(n)
        BY <2>7, <3>1 DEF NoneForgotten
      <3>3. ASSUME NEW r \in TagRules
            PROVE  (Right(n, actor, r) => Right(n, actor, r)') \/ Due(actor, r, Merged(queue, e))
        <4>1. CASE ChecksCombat(r)
          <5>1. Mask(r) \cap e.mask # {}
            BY <2>2, <4>1 DEF Mask
          <5>. QED BY <2>2, <3>1, <5>1, AnyFormIsDue DEF ActorIsWell
        <4>2. CASE ~ChecksCombat(r)
          <5>1. combat \in rule[r].combat /\ combat' \in rule[r].combat
            BY <2>1, <4>2 DEF ChecksCombat, ActorIsWell
          <5>. QED BY <2>1, <5>1 DEF Right, MatchesWith, HadTag
        <4>. QED BY <4>1, <4>2
      <3>4. WillBeSeen(n)'
        BY <2>1, <2>2, <2>3, <3>1, <3>2, <3>3, ScheduledIsSeen
      <3>. QED BY <2>1, <2>3, <2>5, <3>2, <3>4 DEF NoneForgotten
    <2>. QED BY <2>6, <2>7
  <1>2. CASE MoveItem
    <2> DEFINE e == For("inventory", {"item"})
    <2>1. /\ queue' = Merged(queue, e) /\ blurred' = (blurred \/ Blurs(queue, e))
          /\ UNCHANGED <<rule, unstable, native, print, combat, actor, cascade, stopped>>
      BY <1>2 DEF MoveItem, Schedule
    <2>2. e \in Change
      BY ChangesAre
    <2> HIDE DEF e
    <2>3. Merged(queue, e) \in Change
      BY <2>2, MergedIs DEF ActorIsWell
    <2>4. ActorIsWell'
      BY <1>w, <2>1, <2>3 DEF ActorIsWell
    <2>5. CASE blurred' \/ stopped # {} \/ print = {}
      BY <2>1, <2>4, <2>5 DEF NoneForgotten
    <2>6. CASE ~blurred' /\ stopped = {} /\ print # {}
      <3>1. ~blurred /\ ~Blurs(queue, e)
        BY <2>1, <2>6
      <3>2. PICK n : print = {n} /\ (cascade.on => n = native) /\ WillBeSeen(n)
        BY <2>6, <3>1 DEF NoneForgotten
      <3>3. \A r \in TagRules : Right(n, actor, r) => Right(n, actor, r)'
        BY <2>1 DEF Right, MatchesWith, HadTag
      <3>4. WillBeSeen(n)'
        BY <2>1, <2>2, <3>1, <3>2, <3>3, ScheduledIsSeen
      <3>. QED BY <2>1, <2>4, <3>2, <3>4 DEF NoneForgotten
    <2>. QED BY <2>5, <2>6
  <1>3. CASE ReportBase
    <2> DEFINE e == [mask |-> {"static", "tag"}, forms |-> {}]
    <2>1. /\ print' = {} /\ queue' = Merged(queue, e)
          /\ UNCHANGED <<rule, unstable, native, combat, actor, cascade, stopped>>
      BY <1>3 DEF ReportBase, Schedule
    <2>2. e \in Change
      BY ChangesAre
    <2> HIDE DEF e
    <2>3. Merged(queue, e) \in Change
      BY <2>2, MergedIs DEF ActorIsWell
    <2>. QED BY <1>w, <2>1, <2>3 DEF ActorIsWell, NoneForgotten
  <1>4. CASE Reload
    <2> DEFINE owners == [t \in Tags |-> {}]
    <2>1. /\ actor' = [actor EXCEPT !.ready = FALSE, !.owners = owners]
          /\ queue' = Full /\ print' = {}
          /\ UNCHANGED <<rule, unstable, native, combat, cascade, blurred, stopped>>
      BY <1>4 DEF Reload
    <2>2. owners \in [Tags -> SUBSET (TagRules \cup {Legacy})]
      OBVIOUS
    <2> HIDE DEF owners
    <2>3. /\ actor'.state = actor.state /\ actor'.held = actor.held /\ actor'.ready = FALSE
          /\ actor'.owners = owners /\ actor'.produced = actor.produced /\ actor' \in ActorSet
      BY <2>1, <2>2 DEF ActorIsWell, ActorWell, ActorSet
    <2>4. \A t \in actor.held : \E r \in TagRules : Owns(actor, r, t)
      <3>1. OwnersWell(actor) /\ actor.held \subseteq Tags
            /\ actor.owners \in [Tags -> SUBSET (TagRules \cup {Legacy})]
        BY DEF ActorIsWell, ActorWell, ActorSet
      <3>2. ASSUME actor.ready, NEW t \in actor.held
            PROVE  \E r \in TagRules : Owns(actor, r, t)
        <4>1. PICK q \in actor.owners[t] : IF q = Legacy THEN Lasts(actor, t) ELSE Owns(actor, q, t)
          BY <3>1, <3>2 DEF OwnersWell
        <4>2. CASE q = Legacy
          BY <4>1, <4>2 DEF Lasts, Owns
        <4>3. CASE q # Legacy
          BY <3>1, <4>1, <4>3
        <4>. QED BY <4>2, <4>3
      <3>. QED BY <3>1, <3>2 DEF OwnersWell
    <2>5. (\A t \in actor.held : \E r \in TagRules : Owns(actor, r, t))'
      BY <2>1, <2>3, <2>4 DEF Owns, Gave
    <2>6. OwnersWell(actor)' /\ Known(actor)'
      BY <2>1, <2>3, <2>5 DEF ActorIsWell, ActorWell, OwnersWell, Known
    <2>. QED BY <2>1, <2>3, <2>6, ChangesAre DEF ActorIsWell, ActorWell, NoneForgotten
  <1>5. ASSUME NEW t \in NativeTags, ChangeNative(t)
        PROVE  ActorIsWell' /\ NoneForgotten'
    <2>1. /\ ~cascade.on /\ native' \in SUBSET NativeTags
          /\ UNCHANGED <<rule, unstable, print, combat, actor, queue, cascade, blurred, stopped>>
      BY <1>5 DEF ChangeNative, ActorIsWell
    <2>2. ActorIsWell'
      BY <1>w, <2>1 DEF ActorIsWell
    <2>3. \A n : WillBeSeen(n) => WillBeSeen(n)'
      BY <2>1 DEF WillBeSeen, Unstable, Right, MatchesWith, HadTag, Due, IsFull, Mask,
                  ChecksCombat, HasFilters, Filters
    <2>. QED BY <2>1, <2>2, <2>3 DEF NoneForgotten
  <1>. QED BY <1>1, <1>2, <1>3, <1>4, <1>5

LEMMA CascadeInvariant == CascadeSpec => [](ActorIsWell /\ NoneForgotten)
  <1>1. CascadeInit => ActorIsWell /\ NoneForgotten
    BY ActorIsWellInit
  <1>2. ActorIsWell /\ NoneForgotten /\ [CascadeNext]_cascadeVars
           => (ActorIsWell /\ NoneForgotten)'
    <2> SUFFICES ASSUME ActorIsWell, NoneForgotten, [CascadeNext]_cascadeVars
                 PROVE  ActorIsWell' /\ NoneForgotten'
      OBVIOUS
    <2>1. CASE UNCHANGED cascadeVars
      <3>1. ActorWell(actor)' <=> ActorWell(actor)
        BY <2>1 DEF cascadeVars, ActorWell, OwnersWell, Known, Owns, Lasts, Gave
      <3>2. \A n : WillBeSeen(n) => WillBeSeen(n)'
        BY <2>1 DEF cascadeVars, WillBeSeen, Unstable, Right, MatchesWith, HadTag, Due, IsFull,
                    Mask, ChecksCombat, HasFilters, Filters
      <3>. QED BY <2>1, <3>1, <3>2 DEF cascadeVars, ActorIsWell, NoneForgotten
    <2>2. CASE CascadeNext
      BY <2>2, BeginKeeps, PassKeeps, EventKeeps DEF CascadeNext
    <2>. QED BY <2>1, <2>2
  <1>. QED BY <1>1, <1>2, PTL DEF CascadeSpec

\* No tag is left behind, for every set of rules and whatever the rolls, over any
\* sequence of changes, passes and rebuilt owners: a tag that the actor has from the
\* plugin is the one of an active rule that won it or a persistent one.
THEOREM TagsKeepAReason == CascadeSpec => []TagsHaveAReason
  <1>1. ActorIsWell => TagsHaveAReason
    <2> SUFFICES ASSUME ActorIsWell, NEW t \in actor.held
                 PROVE  \E r \in TagRules : Owns(actor, r, t)
      BY DEF TagsHaveAReason, Owns
    <2>1. OwnersWell(actor) /\ actor.held \subseteq Tags
            /\ actor.owners \in [Tags -> SUBSET (TagRules \cup {Legacy})] /\ actor.ready \in BOOLEAN
      BY DEF ActorIsWell, ActorWell, ActorSet
    <2>2. CASE actor.ready
      <3>1. PICK q \in actor.owners[t] : IF q = Legacy THEN Lasts(actor, t) ELSE Owns(actor, q, t)
        BY <2>1, <2>2 DEF OwnersWell
      <3>2. CASE q = Legacy
        BY <3>1, <3>2 DEF Lasts, Owns
      <3>3. CASE q # Legacy
        BY <2>1, <3>1, <3>3
      <3>. QED BY <3>2, <3>3
    <2>3. CASE ~actor.ready
      BY <2>1, <2>3 DEF OwnersWell
    <2>. QED BY <2>2, <2>3
  <1>. QED BY <1>1, CascadeInvariant, PTL

\* The index finds every rule that has to be looked at: once nothing is left to evaluate,
\* exactly the rules that match the actor are active, for every set of rules.
THEOREM TheRightRulesAreActive == CascadeSpec => []SettledIsCurrent
  <1>1. ActorIsWell /\ NoneForgotten => SettledIsCurrent
    <2> SUFFICES ASSUME ActorIsWell, NoneForgotten, ~cascade.on, queue = Nothing, print = {native},
                        ~blurred, stopped = {}, NEW r \in TagRules, ~Unstable(r)
                 PROVE  actor.state[r].active <=> Matches(actor, r)
      BY DEF SettledIsCurrent, Settled, Current
    <2>1. PICK n : print = {n} /\ WillBeSeen(n)
      BY DEF NoneForgotten
    <2>2. n = native
      BY <2>1
    <2>3. ~Due(actor, r, queue)
      BY DEF Due, IsFull, Nothing, Bits
    <2>4. Right(native, actor, r)
      BY <2>1, <2>2, <2>3 DEF WillBeSeen
    <2>. QED BY <2>4, MatchesIs DEF Right
  <1>. QED BY <1>1, CascadeInvariant, PTL

----------------------------------------------------------------------------
(* The ledger of items: its operations on what an actor holds.             *)

Entry == [expected : Nat, missing : Nat]

\* Every entry is one of a reward, and no more is missing than was expected.
HoldingWell(h) ==
    /\ h = [ledger |-> h.ledger, stock |-> h.stock]
    /\ DOMAIN h.ledger \subseteq Keys
    /\ \A k \in DOMAIN h.ledger :
          h.ledger[k] \in Entry /\ h.ledger[k].missing <= h.ledger[k].expected
    /\ h.stock \in [Items -> Nat]

LEMMA RewardIs ==
    ASSUME NEW w \in Rewards
    PROVE  /\ Reward[w].rule \in Rules /\ Reward[w].item \in Items
           /\ Reward[w].amount \in Nat /\ Reward[w].amount > 0
           /\ Reward[w].persistent \in BOOLEAN /\ Native[Reward[w].item] \in Nat
           /\ Key(w) \in Keys /\ Key(w).item = Reward[w].item
  BY RewardAssumption DEF Key, Keys

LEMMA KeysFinite == IsFiniteSet(Keys)
  <1> DEFINE f == [w \in Rewards |-> Key(w)]
  <1>1. f \in Surjection(Rewards, Keys)
    BY DEF Keys, Surjection
  <1>2. IsFiniteSet(Rewards)
    BY FS_Interval, RewardAssumption DEF Rewards
  <1> HIDE DEF f
  <1>. QED BY <1>1, <1>2, FS_Surjection

LEMMA MinIs ==
    ASSUME NEW m \in Int, NEW n \in Int
    PROVE  Min({m, n}) = IF m <= n THEN m ELSE n
  <1>1. \E x \in {m, n} : \A y \in {m, n} : x =< y
    OBVIOUS
  <1> DEFINE x == Min({m, n})
  <1>2. x \in {m, n} /\ \A y \in {m, n} : x =< y
    BY <1>1 DEF Min
  <1> HIDE DEF x
  <1>3. x = IF m <= n THEN m ELSE n
    BY <1>2
  <1>. QED BY <1>3 DEF x

\* The copies that fall to an entry are no more than its claim; the first entry gets
\* all it claims.  The sum over the earlier entries is a recursive function on their
\* sets, which exists on the sets of at most c entries for every c.
LEMMA ShareIs ==
    ASSUME NEW n \in Int, NEW claims, NEW k \in DOMAIN claims, IsFiniteSet(DOMAIN claims),
           \A l \in DOMAIN claims : claims[l] \in Nat
    PROVE  /\ Share(n, claims, k) \in 0..claims[k]
           /\ (\A l \in DOMAIN claims : ~Before(l, k)) =>
                Share(n, claims, k) = Min({claims[k], AtLeast0(n)})
  <1> DEFINE E == {l \in DOMAIN claims : Before(l, k)}
             Pick(s) == CHOOSE x \in s : TRUE
             Rest(g, s) == IF s = {} THEN 0 ELSE claims[Pick(s)] + g[s \ {Pick(s)}]
             iter == CHOOSE g : g = [s \in SUBSET E |-> Rest(g, s)]
             Sets(c) == {s \in SUBSET E : Cardinality(s) <= c}
             Table(c, g) == g = [s \in Sets(c) |-> Rest(g, s)]
             N == Cardinality(E)
             Sound == {c \in 0..N : \E g : Table(c, g)}
             Whole == {c \in 0..N : \A s \in Sets(c) : iter[s] \in Int}
  <1>1. Share(n, claims, k) = Min({claims[k], AtLeast0(n - iter[E])})
    BY DEF Share, MapThenSumSet, MapThenFoldSet
  <1>2. IsFiniteSet(E) /\ N \in Nat
    BY FS_Subset, FS_CardinalityType
  <1>3. \A l \in E : claims[l] \in Nat
    OBVIOUS
  <1>e. (\A l \in DOMAIN claims : ~Before(l, k)) => E = {}
    OBVIOUS
  <1> HIDE DEF E
  <1>4. ASSUME NEW s \in SUBSET E
        PROVE  /\ Cardinality(s) \in 0..N
               /\ s # {} => /\ Pick(s) \in s /\ s \ {Pick(s)} \in SUBSET E
                            /\ Cardinality(s \ {Pick(s)}) = Cardinality(s) - 1
    <2>1. IsFiniteSet(s) /\ Cardinality(s) <= N /\ Cardinality(s) \in Nat
      BY <1>2, FS_Subset, FS_CardinalityType
    <2>2. s # {} => Pick(s) \in s
      OBVIOUS
    <2> HIDE DEF Pick
    <2>3. s # {} => Cardinality(s \ {Pick(s)}) = Cardinality(s) - 1
      BY <2>1, <2>2, FS_RemoveElement
    <2>. QED BY <1>2, <2>1, <2>2, <2>3
  <1>5. \A g, h, s : s = {} \/ g[s \ {Pick(s)}] = h[s \ {Pick(s)}] => Rest(g, s) = Rest(h, s)
    OBVIOUS
  <1>6. /\ \A g : Rest(g, {}) = 0
        /\ \A g, s : s # {} => Rest(g, s) = claims[Pick(s)] + g[s \ {Pick(s)}]
    OBVIOUS
  <1>7. \A c \in 0..N : \A s \in Sets(c) : s \in SUBSET E /\ Cardinality(s) <= c
    OBVIOUS
  <1>8. \A s \in Sets(0) : s = {}
    <2>1. \A s \in SUBSET E : IsFiniteSet(s)
      BY <1>2, FS_Subset
    <2>. QED BY <1>4, <2>1, FS_EmptySet
  <1> HIDE DEF Rest, Pick
  <1>9. 0 \in Sound
    <2> DEFINE h == [s \in Sets(0) |-> 0]
               f == [s \in Sets(0) |-> Rest(h, s)]
    <2> HIDE DEF Sets
    <2>1. \A s \in Sets(0) : h[s] = f[s]
      BY <1>6, <1>8
    <2>2. h = f
      BY <2>1
    <2> HIDE DEF h
    <2>3. Table(0, h)
      BY <2>2
    <2> HIDE DEF Table
    <2>. QED BY <1>2, <2>3
  <1>10. ASSUME NEW c \in 0..(N - 1), c \in Sound
         PROVE  c + 1 \in Sound
    <2>1. PICK g : Table(c, g)
      BY <1>10
    <2>2. c \in Nat /\ c + 1 \in 0..N
      BY <1>2
    <2> DEFINE h == [s \in Sets(c + 1) |-> IF s \in Sets(c) THEN g[s] ELSE Rest(g, s)]
               f == [s \in Sets(c + 1) |-> Rest(h, s)]
    <2>3. ASSUME NEW s \in Sets(c)
          PROVE  s \in Sets(c + 1)
      <3>1. s \in SUBSET E /\ Cardinality(s) <= c
        OBVIOUS
      <3>2. Cardinality(s) \in 0..N
        BY <1>4, <3>1
      <3>3. Cardinality(s) <= c + 1
        BY <1>2, <2>2, <3>1, <3>2
      <3>. QED BY <3>1, <3>3
    <2>4. ASSUME NEW s \in Sets(c + 1), s # {}
          PROVE  s \ {Pick(s)} \in Sets(c)
      <3>0. s \in SUBSET E /\ Cardinality(s) <= c + 1
        OBVIOUS
      <3>1. /\ Cardinality(s) \in 0..N
            /\ s \ {Pick(s)} \in SUBSET E /\ Cardinality(s \ {Pick(s)}) = Cardinality(s) - 1
        BY <1>4, <2>4, <3>0
      <3>2. Cardinality(s \ {Pick(s)}) <= c
        BY <1>2, <2>2, <3>0, <3>1
      <3>. QED BY <3>1, <3>2
    <2> HIDE DEF Sets
    <2>5. \A s \in Sets(c) : g[s] = Rest(g, s)
      BY <2>1
    <2>6. \A s \in Sets(c) : h[s] = g[s]
      BY <2>3
    <2>7. \A s \in Sets(c + 1) : h[s] = Rest(g, s)
      BY <2>5
    <2>8. ASSUME NEW s \in Sets(c + 1)
          PROVE  h[s] = f[s]
      <3>1. s = {} \/ h[s \ {Pick(s)}] = g[s \ {Pick(s)}]
        BY <2>4, <2>6
      <3>2. f[s] = Rest(h, s)
        OBVIOUS
      <3>3. h[s] = Rest(g, s)
        BY <2>7
      <3> HIDE DEF h, f
      <3>4. Rest(g, s) = Rest(h, s)
        BY <1>5, <3>1
      <3>. QED BY <3>2, <3>3, <3>4
    <2>9. h = f
      BY <2>8
    <2> HIDE DEF h
    <2>10. Table(c + 1, h)
      BY <2>9
    <2> HIDE DEF Table
    <2>. QED BY <2>2, <2>10
  <1>11. N \in Sound
    <2> HIDE DEF Sound
    <2>1. \A c \in 0..N : c \in Sound
      BY <1>2, <1>9, <1>10, UpTo
    <2>. QED BY <1>2, <2>1
  <1>12. Sets(N) = SUBSET E
    <2>1. ASSUME NEW s \in SUBSET E
          PROVE  Cardinality(s) <= N
      <3>1. Cardinality(s) \in 0..N
        BY <1>4
      <3> HIDE DEF N
      <3>. QED BY <1>2, <3>1
    <2>. QED BY <2>1
  <1>13. iter = CHOOSE g : Table(N, g)
    BY <1>12
  <1>14. Table(N, iter)
    <2> HIDE DEF Table, iter
    <2>1. \E g : Table(N, g)
      BY <1>11
    <2>. QED BY <1>13, <2>1
  <1>15. \A s \in SUBSET E : iter[s] = Rest(iter, s)
    BY <1>12, <1>14
  <1> HIDE DEF iter, Table
  <1>16. iter[{}] = 0
    BY <1>6, <1>15
  <1>17. 0 \in Whole
    <2> HIDE DEF Sets
    <2>1. \A s \in Sets(0) : iter[s] \in Int
      BY <1>8, <1>16
    <2>. QED BY <1>2, <2>1
  <1>18. ASSUME NEW c \in 0..(N - 1), c \in Whole
         PROVE  c + 1 \in Whole
    <2>1. c \in Nat /\ c + 1 \in 0..N
      BY <1>2
    <2>2. ASSUME NEW s \in Sets(c + 1), s # {}
          PROVE  iter[s] \in Int
      <3>1. /\ s \in SUBSET E /\ Cardinality(s) <= c + 1 /\ Cardinality(s) \in Nat
            /\ s \ {Pick(s)} \in SUBSET E /\ Cardinality(s \ {Pick(s)}) = Cardinality(s) - 1
            /\ Pick(s) \in E
        BY <1>4, <2>2
      <3>2. s \ {Pick(s)} \in Sets(c)
        BY <2>1, <3>1
      <3>3. iter[s \ {Pick(s)}] \in Int
        BY <1>18, <3>2
      <3>4. claims[Pick(s)] \in Nat
        BY <1>3, <3>1
      <3>5. iter[s] = claims[Pick(s)] + iter[s \ {Pick(s)}]
        BY <1>6, <1>15, <2>2, <3>1
      <3>. QED BY <3>3, <3>4, <3>5
    <2> HIDE DEF Sets
    <2>3. ASSUME NEW s \in Sets(c + 1)
          PROVE  iter[s] \in Int
      <3>1. CASE s = {}
        BY <1>16, <3>1
      <3>2. CASE s # {}
        BY <2>2, <3>2
      <3>. QED BY <3>1, <3>2
    <2>. QED BY <2>1, <2>3
  <1>19. iter[E] \in Int
    <2> HIDE DEF Whole
    <2>1. \A c \in 0..N : c \in Whole
      BY <1>2, <1>17, <1>18, UpTo
    <2>2. N \in Whole
      BY <1>2, <2>1
    <2>. QED BY <1>12, <2>2 DEF Whole
  <1>20. Share(n, claims, k) \in 0..claims[k]
    <2>1. AtLeast0(n - iter[E]) \in Nat
      BY <1>19 DEF AtLeast0
    <2>. QED BY <1>1, <2>1, MinIs
  <1>21. E = {} => AtLeast0(n - iter[E]) = AtLeast0(n)
    <2>1. E = {} => n - iter[E] = n
      BY <1>16
    <2>. QED BY <2>1
  <1>. QED BY <1>1, <1>e, <1>20, <1>21

----------------------------------------------------------------------------
(* The ledger: the entry of an item that one reward is of.                *)

\* The books of one item did not change.
SameItem(h, g, i) ==
    /\ g.stock[i] = h.stock[i]
    /\ \A k \in Keys : k.item = i =>
          /\ k \in DOMAIN g.ledger <=> k \in DOMAIN h.ledger
          /\ k \in DOMAIN h.ledger => g.ledger[k] = h.ledger[k]

Others(h, g, i) == \A j \in Items \ {i} : SameItem(h, g, j)

Less(m, n) == IF m <= n THEN m ELSE n

\* The only entry of an item that no other reward is of.
OnlyEntry(h, k) == \A l \in DOMAIN h.ledger : l.item = k.item => l = k

LEMMA AloneIsOnly ==
    ASSUME NEW w \in Rewards, Alone(w), NEW h, HoldingWell(h)
    PROVE  OnlyEntry(h, Key(w)) /\ ~Before(Key(w), Key(w))
  <1>1. \A v \in Rewards : Key(v).item = Key(w).item => v = w
    BY RewardIs DEF Alone
  <1>2. \A l \in DOMAIN h.ledger : \E v \in Rewards : l = Key(v)
    BY DEF HoldingWell, Keys
  <1>3. ~Before(Key(w), Key(w))
    <2>1. Key(w).rule \in Nat
      BY RewardIs, RewardAssumption DEF Rules, Key
    <2>. QED BY <2>1 DEF Before
  <1>. QED BY <1>1, <1>2, <1>3 DEF OnlyEntry

LEMMA PaidIs ==
    ASSUME NEW h, HoldingWell(h), NEW i \in Items, NEW n \in Nat
    PROVE  /\ HoldingWell(Paid(h, i, n)) /\ Others(h, Paid(h, i, n), i)
           /\ Paid(h, i, n).stock = h.stock /\ DOMAIN Paid(h, i, n).ledger = DOMAIN h.ledger
           /\ \A k \in DOMAIN h.ledger : k.item = i =>
                 /\ Paid(h, i, n).ledger[k].expected = h.ledger[k].expected
                 /\ Paid(h, i, n).ledger[k].missing <= h.ledger[k].missing
                 /\ OnlyEntry(h, k) /\ ~Before(k, k) => Paid(h, i, n).ledger[k].missing
                                      = h.ledger[k].missing - Less(h.ledger[k].missing, n)
  <1> DEFINE claims == [k \in EntriesOf(h, i) |-> h.ledger[k].missing]
             after == [k \in DOMAIN h.ledger |->
                IF k.item = i THEN [h.ledger[k] EXCEPT !.missing = @ - Share(n, claims, k)]
                ELSE h.ledger[k]]
             g == Paid(h, i, n)
  <1>1. g = [h EXCEPT !.ledger = after]
    BY DEF Paid
  <1>2. DOMAIN claims = EntriesOf(h, i) /\ IsFiniteSet(DOMAIN claims)
    BY KeysFinite, FS_Subset DEF HoldingWell, EntriesOf
  <1>3. \A k \in DOMAIN h.ledger : h.ledger[k] \in Entry /\ h.ledger[k].missing <= h.ledger[k].expected
    BY DEF HoldingWell
  <1>4. \A k \in EntriesOf(h, i) : k \in DOMAIN h.ledger /\ claims[k] = h.ledger[k].missing /\ claims[k] \in Nat
    BY <1>3 DEF EntriesOf, Entry
  <1> HIDE DEF claims
  <1>5. ASSUME NEW k \in DOMAIN h.ledger, k.item = i
        PROVE  /\ Share(n, claims, k) \in 0..h.ledger[k].missing
               /\ OnlyEntry(h, k) /\ ~Before(k, k) =>
                    Share(n, claims, k) = Less(h.ledger[k].missing, n)
    <2>1. k \in DOMAIN claims /\ k \in EntriesOf(h, i)
      BY <1>2, <1>5 DEF EntriesOf
    <2>2. /\ Share(n, claims, k) \in 0..claims[k]
          /\ (\A l \in DOMAIN claims : ~Before(l, k)) =>
                Share(n, claims, k) = Min({claims[k], AtLeast0(n)})
      BY <1>2, <1>4, <2>1, ShareIs
    <2>3. OnlyEntry(h, k) /\ ~Before(k, k) => \A l \in DOMAIN claims : ~Before(l, k)
      BY <1>2, <1>5 DEF EntriesOf, OnlyEntry
    <2>4. AtLeast0(n) = n
      BY DEF AtLeast0
    <2>5. Min({claims[k], n}) = Less(claims[k], n)
      BY <1>4, <2>1, MinIs DEF Less
    <2>. QED BY <1>4, <2>1, <2>2, <2>3, <2>4, <2>5
  <1> HIDE DEF after
  <1>6. ASSUME NEW k \in DOMAIN h.ledger, k.item = i
        PROVE  /\ after[k].missing = h.ledger[k].missing - Share(n, claims, k)
               /\ after[k].expected = h.ledger[k].expected
               /\ after[k] \in Entry
               /\ after[k].missing <= h.ledger[k].missing
    <2>1. after[k] = [h.ledger[k] EXCEPT !.missing = @ - Share(n, claims, k)]
      BY <1>6 DEF after
    <2>2. h.ledger[k] \in Entry /\ Share(n, claims, k) \in 0..h.ledger[k].missing
      BY <1>3, <1>5, <1>6
    <2>. QED BY <2>1, <2>2 DEF Entry
  <1>7. /\ DOMAIN after = DOMAIN h.ledger
        /\ \A k \in DOMAIN h.ledger : k.item # i => after[k] = h.ledger[k]
    BY DEF after
  <1>8. g.ledger = after /\ g.stock = h.stock /\ g = [ledger |-> g.ledger, stock |-> g.stock]
    BY <1>1 DEF HoldingWell
  <1> HIDE DEF g
  <1>9. \A k \in DOMAIN after : after[k] \in Entry /\ after[k].missing <= after[k].expected
    <2> SUFFICES ASSUME NEW k \in DOMAIN after
                 PROVE  after[k] \in Entry /\ after[k].missing <= after[k].expected
      OBVIOUS
    <2>1. CASE k.item = i
      BY <1>3, <1>6, <1>7, <2>1 DEF Entry
    <2>2. CASE k.item # i
      BY <1>3, <1>7, <2>2
    <2>. QED BY <2>1, <2>2
  <1>10. HoldingWell(g)
    BY <1>7, <1>8, <1>9 DEF HoldingWell
  <1>11. Others(h, g, i)
    BY <1>7, <1>8 DEF Others, SameItem
  <1>. QED BY <1>5, <1>6, <1>7, <1>8, <1>10, <1>11 DEF g

LEMMA ChargedIs ==
    ASSUME NEW h, HoldingWell(h), NEW i \in Items, NEW n \in Nat
    PROVE  /\ HoldingWell(Charged(h, i, n)) /\ Others(h, Charged(h, i, n), i)
           /\ Charged(h, i, n).stock = h.stock /\ DOMAIN Charged(h, i, n).ledger = DOMAIN h.ledger
           /\ \A k \in DOMAIN h.ledger : k.item = i =>
                 /\ Charged(h, i, n).ledger[k].expected = h.ledger[k].expected
                 /\ Charged(h, i, n).ledger[k].missing >= h.ledger[k].missing
                 /\ OnlyEntry(h, k) /\ ~Before(k, k) => Charged(h, i, n).ledger[k].missing
                       = h.ledger[k].missing
                         + Less(h.ledger[k].expected - h.ledger[k].missing, n)
  <1> DEFINE claims == [k \in EntriesOf(h, i) |-> Protected(h.ledger[k])]
             after == [k \in DOMAIN h.ledger |->
                IF k.item = i THEN [h.ledger[k] EXCEPT !.missing = @ + Share(n, claims, k)]
                ELSE h.ledger[k]]
             g == Charged(h, i, n)
  <1>1. g = [h EXCEPT !.ledger = after]
    BY DEF Charged
  <1>2. DOMAIN claims = EntriesOf(h, i) /\ IsFiniteSet(DOMAIN claims)
    BY KeysFinite, FS_Subset DEF HoldingWell, EntriesOf
  <1>3. \A k \in DOMAIN h.ledger : h.ledger[k] \in Entry /\ h.ledger[k].missing <= h.ledger[k].expected
    BY DEF HoldingWell
  <1>p. \A k \in DOMAIN h.ledger : /\ Protected(h.ledger[k]) = h.ledger[k].expected - h.ledger[k].missing
                                   /\ Protected(h.ledger[k]) \in Nat
    BY <1>3 DEF Protected, AtLeast0, Entry
  <1>4. \A k \in EntriesOf(h, i) : /\ k \in DOMAIN h.ledger
                                   /\ claims[k] = h.ledger[k].expected - h.ledger[k].missing
                                   /\ claims[k] \in Nat
    BY <1>p DEF EntriesOf
  <1> HIDE DEF claims
  <1>5. ASSUME NEW k \in DOMAIN h.ledger, k.item = i
        PROVE  /\ Share(n, claims, k) \in 0..(h.ledger[k].expected - h.ledger[k].missing)
               /\ OnlyEntry(h, k) /\ ~Before(k, k) =>
                    Share(n, claims, k) = Less(h.ledger[k].expected - h.ledger[k].missing, n)
    <2>1. k \in DOMAIN claims /\ k \in EntriesOf(h, i)
      BY <1>2, <1>5 DEF EntriesOf
    <2>2. /\ Share(n, claims, k) \in 0..claims[k]
          /\ (\A l \in DOMAIN claims : ~Before(l, k)) =>
                Share(n, claims, k) = Min({claims[k], AtLeast0(n)})
      BY <1>2, <1>4, <2>1, ShareIs
    <2>3. OnlyEntry(h, k) /\ ~Before(k, k) => \A l \in DOMAIN claims : ~Before(l, k)
      BY <1>2, <1>5 DEF EntriesOf, OnlyEntry
    <2>4. AtLeast0(n) = n
      BY DEF AtLeast0
    <2>5. Min({claims[k], n}) = Less(claims[k], n)
      BY <1>4, <2>1, MinIs DEF Less
    <2>. QED BY <1>4, <2>1, <2>2, <2>3, <2>4, <2>5
  <1> HIDE DEF after
  <1>6. ASSUME NEW k \in DOMAIN h.ledger, k.item = i
        PROVE  /\ after[k].missing = h.ledger[k].missing + Share(n, claims, k)
               /\ after[k].expected = h.ledger[k].expected
               /\ after[k] \in Entry
               /\ after[k].missing >= h.ledger[k].missing
               /\ after[k].missing <= after[k].expected
    <2>1. after[k] = [h.ledger[k] EXCEPT !.missing = @ + Share(n, claims, k)]
      BY <1>6 DEF after
    <2>2. h.ledger[k] \in Entry
          /\ Share(n, claims, k) \in 0..(h.ledger[k].expected - h.ledger[k].missing)
      BY <1>3, <1>5, <1>6
    <2>. QED BY <2>1, <2>2 DEF Entry
  <1>7. /\ DOMAIN after = DOMAIN h.ledger
        /\ \A k \in DOMAIN h.ledger : k.item # i => after[k] = h.ledger[k]
    BY DEF after
  <1>8. g.ledger = after /\ g.stock = h.stock /\ g = [ledger |-> g.ledger, stock |-> g.stock]
    BY <1>1 DEF HoldingWell
  <1> HIDE DEF g
  <1>9. \A k \in DOMAIN after : after[k] \in Entry /\ after[k].missing <= after[k].expected
    <2> SUFFICES ASSUME NEW k \in DOMAIN after
                 PROVE  after[k] \in Entry /\ after[k].missing <= after[k].expected
      OBVIOUS
    <2>1. CASE k.item = i
      BY <1>6, <1>7, <2>1
    <2>2. CASE k.item # i
      BY <1>3, <1>7, <2>2
    <2>. QED BY <2>1, <2>2
  <1>10. HoldingWell(g)
    BY <1>7, <1>8, <1>9 DEF HoldingWell
  <1>11. Others(h, g, i)
    BY <1>7, <1>8 DEF Others, SameItem
  <1>. QED BY <1>5, <1>6, <1>7, <1>8, <1>10, <1>11 DEF g

\* The entry of an item's only reward, or what stands for it when there is none.
Expected(h, k) == IF k \in DOMAIN h.ledger THEN h.ledger[k].expected ELSE 0
Missing(h, k) == IF k \in DOMAIN h.ledger THEN h.ledger[k].missing ELSE 0

LEMMA EntryIs ==
    ASSUME NEW h, HoldingWell(h), NEW k
    PROVE  /\ Expected(h, k) \in Nat /\ Missing(h, k) \in 0..Expected(h, k)
           /\ Protected(h.ledger[k]) = Expected(h, k) - Missing(h, k) \/ k \notin DOMAIN h.ledger
  BY DEF HoldingWell, Entry, Expected, Missing, Protected, AtLeast0

LEMMA PutOnIs ==
    ASSUME NEW h, HoldingWell(h), NEW i \in Items, NEW n \in Nat, NEW reported \in BOOLEAN
    PROVE  /\ HoldingWell(PutOn(h, i, n, reported)) /\ Others(h, PutOn(h, i, n, reported), i)
           /\ PutOn(h, i, n, reported).stock[i] = h.stock[i] + n
           /\ DOMAIN PutOn(h, i, n, reported).ledger = DOMAIN h.ledger
           /\ \A k \in Keys : k.item = i =>
                 /\ Expected(PutOn(h, i, n, reported), k) = Expected(h, k)
                 /\ Missing(PutOn(h, i, n, reported), k) <= Missing(h, k)
                 /\ OnlyEntry(h, k) /\ ~Before(k, k) =>
                      Missing(PutOn(h, i, n, reported), k)
                         = IF reported THEN Missing(h, k) - Less(Missing(h, k), n)
                           ELSE Missing(h, k)
  <1> DEFINE added == [h EXCEPT !.stock[i] = @ + n]
             stockNow == [h.stock EXCEPT ![i] = @ + n]
             g == PutOn(h, i, n, reported)
  <1>1. added.ledger = h.ledger /\ added.stock = stockNow
        /\ added = [ledger |-> added.ledger, stock |-> added.stock]
    BY DEF HoldingWell
  <1>2. stockNow \in [Items -> Nat] /\ stockNow[i] = h.stock[i] + n
        /\ \A j \in Items \ {i} : stockNow[j] = h.stock[j]
    BY DEF HoldingWell
  <1>3. g = IF reported THEN Paid(added, i, n) ELSE added
    BY DEF PutOn
  <1> HIDE DEF added, stockNow, g
  <1>4. HoldingWell(added) /\ Others(h, added, i)
    BY <1>1, <1>2 DEF HoldingWell, Others, SameItem
  <1>5. \A k \in Keys : Missing(h, k) \in Nat
    BY EntryIs
  <1>6. CASE reported
    <2>1. g = Paid(added, i, n)
      BY <1>3, <1>6
    <2>2. /\ HoldingWell(g) /\ Others(added, g, i)
          /\ g.stock = added.stock /\ DOMAIN g.ledger = DOMAIN added.ledger
          /\ \A k \in DOMAIN added.ledger : k.item = i =>
                 /\ g.ledger[k].expected = added.ledger[k].expected
                 /\ g.ledger[k].missing <= added.ledger[k].missing
                 /\ OnlyEntry(added, k) /\ ~Before(k, k) => g.ledger[k].missing
                       = added.ledger[k].missing - Less(added.ledger[k].missing, n)
      BY <1>4, <2>1, PaidIs
    <2>3. Others(h, g, i)
      BY <1>4, <2>2 DEF Others, SameItem
    <2>4. \A k : OnlyEntry(h, k) => OnlyEntry(added, k)
      BY <1>1 DEF OnlyEntry
    <2>5. \A k \in DOMAIN h.ledger : k.item = i =>
                 /\ g.ledger[k].expected = h.ledger[k].expected
                 /\ g.ledger[k].missing <= h.ledger[k].missing
                 /\ OnlyEntry(h, k) /\ ~Before(k, k) => g.ledger[k].missing
                       = h.ledger[k].missing - Less(h.ledger[k].missing, n)
      BY <1>1, <2>2, <2>4
    <2>6. Less(0, n) = 0
      BY DEF Less
    <2>7. \A k \in Keys : k.item = i =>
                 /\ Expected(g, k) = Expected(h, k)
                 /\ Missing(g, k) <= Missing(h, k)
                 /\ OnlyEntry(h, k) /\ ~Before(k, k) =>
                      Missing(g, k) = Missing(h, k) - Less(Missing(h, k), n)
      BY <1>1, <2>2, <2>5, <2>6 DEF Expected, Missing
    <2>. QED BY <1>1, <1>2, <1>6, <2>2, <2>3, <2>7 DEF g
  <1>7. CASE ~reported
    <2>1. g = added
      BY <1>3, <1>7
    <2>2. \A k \in Keys : Expected(g, k) = Expected(h, k) /\ Missing(g, k) = Missing(h, k)
      BY <1>1, <2>1 DEF Expected, Missing
    <2>. QED BY <1>1, <1>2, <1>4, <1>5, <1>7, <2>1, <2>2 DEF g
  <1>. QED BY <1>6, <1>7

LEMMA TakeOffIs ==
    ASSUME NEW h, HoldingWell(h), NEW i \in Items, NEW n \in 0..h.stock[i],
           NEW reported \in BOOLEAN
    PROVE  /\ HoldingWell(TakeOff(h, i, n, reported)) /\ Others(h, TakeOff(h, i, n, reported), i)
           /\ TakeOff(h, i, n, reported).stock[i] = h.stock[i] - n
           /\ DOMAIN TakeOff(h, i, n, reported).ledger = DOMAIN h.ledger
           /\ \A k \in Keys : k.item = i =>
                 /\ Expected(TakeOff(h, i, n, reported), k) = Expected(h, k)
                 /\ Missing(TakeOff(h, i, n, reported), k) >= Missing(h, k)
                 /\ OnlyEntry(h, k) /\ ~Before(k, k) =>
                      Missing(TakeOff(h, i, n, reported), k)
                         = IF reported THEN Missing(h, k) + Less(Expected(h, k) - Missing(h, k), n)
                           ELSE Missing(h, k)
  <1> DEFINE removed == [h EXCEPT !.stock[i] = @ - n]
             stockNow == [h.stock EXCEPT ![i] = @ - n]
             g == TakeOff(h, i, n, reported)
  <1>0. h.stock[i] \in Nat /\ n \in Nat
    BY DEF HoldingWell
  <1>1. removed.ledger = h.ledger /\ removed.stock = stockNow
        /\ removed = [ledger |-> removed.ledger, stock |-> removed.stock]
    BY DEF HoldingWell
  <1>2. stockNow \in [Items -> Nat] /\ stockNow[i] = h.stock[i] - n
        /\ \A j \in Items \ {i} : stockNow[j] = h.stock[j]
    BY <1>0 DEF HoldingWell
  <1>3. g = IF reported THEN Charged(removed, i, n) ELSE removed
    BY DEF TakeOff
  <1> HIDE DEF removed, stockNow, g
  <1>4. HoldingWell(removed) /\ Others(h, removed, i)
    BY <1>1, <1>2 DEF HoldingWell, Others, SameItem
  <1>5. \A k \in Keys : Missing(h, k) \in Nat
    BY EntryIs
  <1>6. CASE reported
    <2>1. g = Charged(removed, i, n)
      BY <1>3, <1>6
    <2>2. /\ HoldingWell(g) /\ Others(removed, g, i)
          /\ g.stock = removed.stock /\ DOMAIN g.ledger = DOMAIN removed.ledger
          /\ \A k \in DOMAIN removed.ledger : k.item = i =>
                 /\ g.ledger[k].expected = removed.ledger[k].expected
                 /\ g.ledger[k].missing >= removed.ledger[k].missing
                 /\ OnlyEntry(removed, k) /\ ~Before(k, k) => g.ledger[k].missing
                       = removed.ledger[k].missing
                         + Less(removed.ledger[k].expected - removed.ledger[k].missing, n)
      BY <1>0, <1>4, <2>1, ChargedIs
    <2>3. Others(h, g, i)
      BY <1>4, <2>2 DEF Others, SameItem
    <2>4. \A k : OnlyEntry(h, k) => OnlyEntry(removed, k)
      BY <1>1 DEF OnlyEntry
    <2>5. \A k \in DOMAIN h.ledger : k.item = i =>
                 /\ g.ledger[k].expected = h.ledger[k].expected
                 /\ g.ledger[k].missing >= h.ledger[k].missing
                 /\ OnlyEntry(h, k) /\ ~Before(k, k) => g.ledger[k].missing
                       = h.ledger[k].missing
                         + Less(h.ledger[k].expected - h.ledger[k].missing, n)
      BY <1>1, <2>2, <2>4
    <2>6. Less(0 - 0, n) = 0
      BY <1>0 DEF Less
    <2>7. \A k \in Keys : k.item = i =>
                 /\ Expected(g, k) = Expected(h, k)
                 /\ Missing(g, k) >= Missing(h, k)
                 /\ OnlyEntry(h, k) /\ ~Before(k, k) =>
                      Missing(g, k) = Missing(h, k) + Less(Expected(h, k) - Missing(h, k), n)
      BY <1>1, <2>2, <2>5, <2>6 DEF Expected, Missing
    <2>. QED BY <1>1, <1>2, <1>6, <2>2, <2>3, <2>7 DEF g
  <1>7. CASE ~reported
    <2>1. g = removed
      BY <1>3, <1>7
    <2>2. \A k \in Keys : Expected(g, k) = Expected(h, k) /\ Missing(g, k) = Missing(h, k)
      BY <1>1, <2>1 DEF Expected, Missing
    <2>. QED BY <1>1, <1>2, <1>4, <1>5, <1>7, <2>1, <2>2 DEF g
  <1>. QED BY <1>6, <1>7

LEMMA PutIs ==
    ASSUME NEW h, HoldingWell(h), NEW k \in Keys, NEW m \in Nat, NEW n \in 0..m
    PROVE  /\ HoldingWell(Put(h, k, m, n)) /\ Others(h, Put(h, k, m, n), k.item)
           /\ Put(h, k, m, n).stock = h.stock
           /\ DOMAIN Put(h, k, m, n).ledger = DOMAIN h.ledger \cup {k}
           /\ Expected(Put(h, k, m, n), k) = m /\ Missing(Put(h, k, m, n), k) = n
  <1> DEFINE after == [l \in DOMAIN h.ledger \cup {k} |->
                IF l = k THEN [expected |-> m, missing |-> n] ELSE h.ledger[l]]
             g == Put(h, k, m, n)
  <1>1. g = [h EXCEPT !.ledger = after]
    BY DEF Put
  <1>2. /\ DOMAIN after = DOMAIN h.ledger \cup {k} /\ after[k] = [expected |-> m, missing |-> n]
        /\ \A l \in DOMAIN h.ledger : l # k => after[l] = h.ledger[l]
    OBVIOUS
  <1> HIDE DEF after
  <1>3. g.ledger = after /\ g.stock = h.stock /\ g = [ledger |-> g.ledger, stock |-> g.stock]
    BY <1>1 DEF HoldingWell
  <1> HIDE DEF g
  <1>4. after[k] \in Entry /\ after[k].missing <= after[k].expected
    BY <1>2 DEF Entry
  <1>5. HoldingWell(g)
    BY <1>2, <1>3, <1>4 DEF HoldingWell
  <1>6. Others(h, g, k.item)
    BY <1>2, <1>3 DEF Others, SameItem
  <1>. QED BY <1>2, <1>3, <1>5, <1>6 DEF g, Expected, Missing

----------------------------------------------------------------------------
(* What is given, restored and taken back of one reward.                  *)

LEMMA OthersOn ==
    ASSUME NEW f, NEW g, NEW h, NEW i, Others(f, g, i), Others(g, h, i)
    PROVE  Others(f, h, i)
  BY DEF Others, SameItem

LEMMA GrantedIs ==
    ASSUME NEW h, HoldingWell(h), NEW w \in Rewards, NEW reported \in BOOLEAN
    PROVE  /\ HoldingWell(Granted(h, w, reported))
           /\ Others(h, Granted(h, w, reported), Reward[w].item)
           /\ Granted(h, w, reported).stock[Reward[w].item]
                 = h.stock[Reward[w].item] + Reward[w].amount
           /\ DOMAIN Granted(h, w, reported).ledger = DOMAIN h.ledger \cup {Key(w)}
           /\ Expected(Granted(h, w, reported), Key(w)) = Expected(h, Key(w)) + Reward[w].amount
           /\ Missing(Granted(h, w, reported), Key(w))
                 = AtLeast0(Expected(h, Key(w)) - h.stock[Reward[w].item])
  <1> DEFINE i == Reward[w].item
             n == Reward[w].amount
             k == Key(w)
             given == PutOn(h, i, n, reported)
             expected == n + IF k \in DOMAIN given.ledger THEN given.ledger[k].expected ELSE 0
             g == Granted(h, w, reported)
  <1>1. i \in Items /\ n \in Nat /\ k \in Keys /\ k.item = i
    BY RewardIs
  <1>2. g = Put(given, k, expected, AtLeast0(expected - given.stock[i]))
    BY DEF Granted
  <1>3. expected = n + Expected(given, k)
    BY DEF Expected
  <1> HIDE DEF expected, i, n, k
  <1>4. /\ HoldingWell(given) /\ Others(h, given, i) /\ given.stock[i] = h.stock[i] + n
        /\ DOMAIN given.ledger = DOMAIN h.ledger /\ Expected(given, k) = Expected(h, k)
    BY <1>1, PutOnIs
  <1>5. Expected(h, k) \in Nat /\ h.stock[i] \in Nat
    BY <1>1, EntryIs DEF HoldingWell
  <1> HIDE DEF given, g
  <1>6. expected \in Nat /\ AtLeast0(expected - given.stock[i]) \in 0..expected
        /\ expected - given.stock[i] = Expected(h, k) - h.stock[i]
    BY <1>1, <1>3, <1>4, <1>5 DEF AtLeast0
  <1>7. /\ HoldingWell(g) /\ Others(given, g, k.item) /\ g.stock = given.stock
        /\ DOMAIN g.ledger = DOMAIN given.ledger \cup {k}
        /\ Expected(g, k) = expected /\ Missing(g, k) = AtLeast0(expected - given.stock[i])
    <2> DEFINE m == AtLeast0(expected - given.stock[i])
    <2>1. g = Put(given, k, expected, m) /\ m \in 0..expected /\ expected \in Nat
      BY <1>2, <1>6
    <2> HIDE DEF m
    <2>2. /\ HoldingWell(g) /\ Others(given, g, k.item) /\ g.stock = given.stock
          /\ DOMAIN g.ledger = DOMAIN given.ledger \cup {k}
          /\ Expected(g, k) = expected /\ Missing(g, k) = m
      BY <1>1, <1>4, <2>1, PutIs
    <2>. QED BY <2>2 DEF m
  <1>8. Others(h, g, i)
    BY <1>1, <1>4, <1>7, OthersOn
  <1>. QED BY <1>1, <1>3, <1>4, <1>5, <1>6, <1>7, <1>8 DEF g, i, n, k

LEMMA RestoredIs ==
    ASSUME NEW h, HoldingWell(h), NEW w \in Rewards, NEW reported \in BOOLEAN
    PROVE  /\ HoldingWell(RestoredReward(h, w, reported))
           /\ Others(h, RestoredReward(h, w, reported), Reward[w].item)
           /\ Key(w) \in DOMAIN h.ledger =>
                /\ DOMAIN RestoredReward(h, w, reported).ledger = DOMAIN h.ledger
                /\ Expected(RestoredReward(h, w, reported), Key(w)) = Expected(h, Key(w))
                /\ Missing(RestoredReward(h, w, reported), Key(w)) <= Missing(h, Key(w))
                /\ RestoredReward(h, w, reported).stock[Reward[w].item] >=
                      Expected(h, Key(w)) - Missing(h, Key(w))
  <1> DEFINE i == Reward[w].item
             n == Reward[w].amount
             k == Key(w)
             tracked == Tracked(h, w)
             count == RestoreCount(tracked, w)
             g == RestoredReward(h, w, reported)
  <1>1. i \in Items /\ n \in Nat /\ k \in Keys /\ k.item = i
    BY RewardIs
  <1>2. g = IF count = 0 THEN tracked ELSE PutOn(tracked, i, count, reported)
    BY DEF RestoredReward
  <1>3. tracked = IF k \in DOMAIN h.ledger \/ h.stock[i] = 0 THEN h
                  ELSE Put(h, k, n, AtLeast0(n - h.stock[i]))
    BY DEF Tracked
  <1>4. count = IF k \in DOMAIN tracked.ledger
                THEN AtLeast0(Protected(tracked.ledger[k]) - tracked.stock[i]) ELSE 0
    BY DEF RestoreCount
  <1> HIDE DEF i, n, k, tracked, count, g
  <1>s. Others(h, h, i)
    BY DEF Others, SameItem
  <1>5. HoldingWell(tracked) /\ Others(h, tracked, i)
    <2>1. CASE k \in DOMAIN h.ledger \/ h.stock[i] = 0
      BY <1>3, <1>s, <2>1
    <2>2. CASE ~(k \in DOMAIN h.ledger \/ h.stock[i] = 0)
      <3>1. AtLeast0(n - h.stock[i]) \in 0..n
        BY <1>1 DEF AtLeast0, HoldingWell
      <3>2. tracked = Put(h, k, n, AtLeast0(n - h.stock[i]))
        BY <1>3, <2>2
      <3>. QED BY <1>1, <3>1, <3>2, PutIs
    <2>. QED BY <2>1, <2>2
  <1>6. tracked.stock[i] \in Nat /\ Expected(tracked, k) \in Nat
        /\ Missing(tracked, k) \in 0..Expected(tracked, k)
        /\ (k \in DOMAIN tracked.ledger =>
              Protected(tracked.ledger[k]) = Expected(tracked, k) - Missing(tracked, k))
    BY <1>1, <1>5, EntryIs DEF HoldingWell
  <1>7. count \in Nat
        /\ (k \in DOMAIN tracked.ledger =>
              count + tracked.stock[i] >= Expected(tracked, k) - Missing(tracked, k))
    BY <1>4, <1>6 DEF AtLeast0
  <1>8. /\ HoldingWell(g) /\ Others(tracked, g, i) /\ g.stock[i] = tracked.stock[i] + count
        /\ DOMAIN g.ledger = DOMAIN tracked.ledger
        /\ Expected(g, k) = Expected(tracked, k) /\ Missing(g, k) <= Missing(tracked, k)
    <2>1. CASE count = 0
      <3>1. g = tracked
        BY <1>2, <2>1
      <3>2. Others(g, g, i)
        BY DEF Others, SameItem
      <3>. QED BY <1>5, <1>6, <2>1, <3>1, <3>2
    <2>2. CASE count # 0
      <3>1. g = PutOn(tracked, i, count, reported)
        BY <1>2, <2>2
      <3>. QED BY <1>1, <1>5, <1>7, <3>1, PutOnIs
    <2>. QED BY <2>1, <2>2
  <1>9. Others(h, g, i)
    BY <1>5, <1>8, OthersOn
  <1>10. k \in DOMAIN h.ledger => tracked = h
    BY <1>3
  <1>11. k \in DOMAIN h.ledger =>
            /\ DOMAIN g.ledger = DOMAIN h.ledger /\ Expected(g, k) = Expected(h, k)
            /\ Missing(g, k) <= Missing(h, k) /\ g.stock[i] >= Expected(h, k) - Missing(h, k)
    BY <1>6, <1>7, <1>8, <1>10
  <1>. QED BY <1>8, <1>9, <1>11 DEF g, i, k

LEMMA InvalidatedIs ==
    ASSUME NEW h, HoldingWell(h), NEW w \in Rewards, NEW reported \in BOOLEAN,
           NEW k, k = Key(w), NEW s, s = h.stock[Reward[w].item],
           NEW p, p = (IF k \in DOMAIN h.ledger THEN Expected(h, k) - Missing(h, k)
                       ELSE Reward[w].amount)
    PROVE  /\ HoldingWell(Invalidated(h, w, reported))
           /\ Others(h, Invalidated(h, w, reported), Reward[w].item)
           /\ Invalidated(h, w, reported).stock[Reward[w].item] = s - Less(s, p)
           /\ k \notin DOMAIN h.ledger \/ Missing(h, k) = 0 =>
                 k \notin DOMAIN Invalidated(h, w, reported).ledger
           /\ k \in DOMAIN h.ledger /\ Missing(h, k) > 0 =>
                /\ k \in DOMAIN Invalidated(h, w, reported).ledger
                /\ Expected(Invalidated(h, w, reported), k) = Expected(h, k)
                /\ Missing(Invalidated(h, w, reported), k) >= Missing(h, k)
                /\ OnlyEntry(h, k) /\ ~Before(k, k) =>
                      \/ Missing(Invalidated(h, w, reported), k) = Missing(h, k)
                      \/ Missing(Invalidated(h, w, reported), k) = Missing(h, k) + Less(p, Less(s, p))
  <1> DEFINE i == Reward[w].item
             known == k \in DOMAIN h.ledger
             count == Min({h.stock[i], IF known THEN Protected(h.ledger[k]) ELSE Reward[w].amount})
             erase == known /\ h.ledger[k].missing = 0
             left == IF count = 0 THEN h ELSE TakeOff(h, i, count, reported)
             erased == [l \in DOMAIN left.ledger \ {k} |-> left.ledger[l]]
             g == Invalidated(h, w, reported)
  <1>1. i \in Items /\ Reward[w].amount \in Nat /\ k \in Keys /\ k.item = i
    BY RewardIs
  <1>2. g = IF erase THEN [left EXCEPT !.ledger = erased] ELSE left
    BY DEF Invalidated
  <1>3. /\ s \in Nat /\ Expected(h, k) \in Nat /\ Missing(h, k) \in 0..Expected(h, k) /\ p \in Nat
        /\ (known => Protected(h.ledger[k]) = p) /\ (known => h.ledger[k].missing = Missing(h, k))
        /\ s = h.stock[i]
    BY <1>1, EntryIs DEF HoldingWell, Missing
  <1>4. count = Less(s, p) /\ count \in 0..s /\ count <= p
    <2>1. count = Min({s, p})
      BY <1>3
    <2>. QED BY <1>3, <2>1, MinIs DEF Less
  <1> HIDE DEF i, count
  <1>5. /\ HoldingWell(left) /\ Others(h, left, i) /\ left.stock[i] = s - count
        /\ DOMAIN left.ledger = DOMAIN h.ledger
        /\ Expected(left, k) = Expected(h, k) /\ Missing(left, k) >= Missing(h, k)
        /\ OnlyEntry(h, k) /\ ~Before(k, k) =>
              \/ Missing(left, k) = Missing(h, k)
              \/ Missing(left, k) = Missing(h, k) + Less(Expected(h, k) - Missing(h, k), count)
    <2>1. CASE count = 0
      <3>1. left = h
        BY <2>1
      <3>2. Others(h, h, i)
        BY DEF Others, SameItem
      <3> HIDE DEF left
      <3>. QED BY <1>3, <2>1, <3>1, <3>2
    <2>2. CASE count # 0
      <3>1. left = TakeOff(h, i, count, reported)
        BY <2>2
      <3> HIDE DEF left
      <3>. QED BY <1>1, <1>3, <1>4, <3>1, TakeOffIs
    <2>. QED BY <2>1, <2>2
  <1> HIDE DEF left, g, erased
  <1>6. CASE erase
    <2>1. g = [left EXCEPT !.ledger = erased]
      BY <1>2, <1>6
    <2>2. DOMAIN erased = DOMAIN left.ledger \ {k}
          /\ \A l \in DOMAIN erased : erased[l] = left.ledger[l]
      BY DEF erased
    <2>3. g.ledger = erased /\ g.stock = left.stock /\ g = [ledger |-> g.ledger, stock |-> g.stock]
      BY <1>5, <2>1 DEF HoldingWell
    <2>4. HoldingWell(g)
      BY <1>5, <2>2, <2>3 DEF HoldingWell
    <2>5. Others(left, g, i)
      BY <1>1, <2>2, <2>3 DEF Others, SameItem
    <2>6. Others(h, g, i)
      BY <1>5, <2>5, OthersOn
    <2>7. k \notin DOMAIN g.ledger /\ Missing(h, k) = 0
      BY <1>3, <1>6, <2>2, <2>3
    <2>. QED BY <1>3, <1>4, <1>5, <2>3, <2>4, <2>6, <2>7 DEF g, i
  <1>7. CASE ~erase
    <2>1. g = left
      BY <1>2, <1>7
    <2>2. ~(k \in DOMAIN h.ledger /\ Missing(h, k) = 0)
      BY <1>3, <1>7
    <2>. QED BY <1>3, <1>4, <1>5, <2>1, <2>2 DEF g, i
  <1>. QED BY <1>6, <1>7

\* A rule that ends, reward by reward.
LEMMA DeactivatedChain ==
    ASSUME NEW x, NEW y, NEW reported
    PROVE  \E g : /\ g[0] = x /\ Deactivated(x, y, reported).holding = g[NRewards]
                  /\ \A k \in 0..(NRewards - 1) : g[k + 1] = (IF k + 1 \in y.keys /\ ~Reward[k + 1].persistent
                       THEN Invalidated(g[k], k + 1, reported) ELSE g[k])
  <1> DEFINE temporary == {w \in y.keys : ~Reward[w].persistent}
             Dealt(b, w) == IF w \in temporary THEN Invalidated(b, w, reported) ELSE b
             seq == [w \in Rewards |-> w]
             Rest(g, s) == IF s = {} THEN x ELSE Dealt(g[s \ {Max(s)}], seq[Max(s)])
             iter == CHOOSE g : g = [s \in SUBSET DOMAIN seq |-> Rest(g, s)]
             Table(k, g) == g = [s \in SUBSET (1..k) |-> Rest(g, s)]
             Sound == {k \in 0..NRewards : \E g : Table(k, g)}
  <1>1. Deactivated(x, y, reported).holding = iter[DOMAIN seq]
    BY DEF Deactivated, InOrder, FoldLeft, MapThenFoldSet
  <1>2. DOMAIN seq = 1..NRewards /\ NRewards \in Nat
    BY RewardAssumption DEF Rewards
  <1> HIDE DEF Dealt, seq
  <1>3. \A g, h, s : s = {} \/ g[s \ {Max(s)}] = h[s \ {Max(s)}] => Rest(g, s) = Rest(h, s)
    OBVIOUS
  <1>4. /\ \A g : Rest(g, {}) = x
        /\ \A g, s : s # {} => Rest(g, s) = Dealt(g[s \ {Max(s)}], seq[Max(s)])
    OBVIOUS
  <1> HIDE DEF Rest
  <1>5. 0 \in Sound
    <2> DEFINE h == [s \in SUBSET (1..0) |-> x]
               f == [s \in SUBSET (1..0) |-> Rest(h, s)]
    <2>1. \A s \in SUBSET (1..0) : s = {}
      OBVIOUS
    <2>2. \A s \in SUBSET (1..0) : h[s] = f[s]
      BY <1>4, <2>1
    <2>3. h = f
      BY <2>2
    <2> HIDE DEF h
    <2>4. Table(0, h)
      BY <2>3
    <2> HIDE DEF Table
    <2>. QED BY <1>2, <2>4
  <1>6. ASSUME NEW k \in 0..(NRewards - 1), k \in Sound
        PROVE  k + 1 \in Sound
    <2>1. PICK g : Table(k, g)
      BY <1>6
    <2>2. k \in Nat /\ k + 1 \in 0..NRewards
      BY <1>2
    <2> DEFINE h == [s \in SUBSET (1..(k + 1)) |->
                        IF s \in SUBSET (1..k) THEN g[s] ELSE Rest(g, s)]
               f == [s \in SUBSET (1..(k + 1)) |-> Rest(h, s)]
    <2>3. \A s \in SUBSET (1..k) : g[s] = Rest(g, s)
      BY <2>1
    <2>4. 1..k \subseteq 1..(k + 1)
      BY <2>2
    <2>5. \A s \in SUBSET (1..k) : h[s] = g[s]
      BY <2>4
    <2>6. ASSUME NEW s \in SUBSET (1..(k + 1))
          PROVE  s \ {Max(s)} \in SUBSET (1..k)
      <3>1. CASE k + 1 \in s
        <4>1. Max(s) = k + 1
          BY <2>2, <3>1, MaxIs
        <4>2. \A i \in 1..(k + 1) : i # k + 1 => i \in 1..k
          BY <2>2
        <4>. QED BY <4>1, <4>2
      <3>2. CASE k + 1 \notin s
        <4>1. \A i \in 1..(k + 1) : i # k + 1 => i \in 1..k
          BY <2>2
        <4>. QED BY <3>2, <4>1
      <3>. QED BY <3>1, <3>2
    <2>7. \A s \in SUBSET (1..(k + 1)) : h[s] = Rest(g, s)
      BY <2>3
    <2>8. ASSUME NEW s \in SUBSET (1..(k + 1))
          PROVE  h[s] = f[s]
      <3>1. h[s \ {Max(s)}] = g[s \ {Max(s)}]
        BY <2>5, <2>6
      <3>2. f[s] = Rest(h, s)
        OBVIOUS
      <3>3. h[s] = Rest(g, s)
        BY <2>7
      <3> HIDE DEF h, f
      <3>4. Rest(g, s) = Rest(h, s)
        BY <1>3, <3>1
      <3>. QED BY <3>2, <3>3, <3>4
    <2>9. h = f
      BY <2>8
    <2> HIDE DEF h
    <2>10. Table(k + 1, h)
      BY <2>9
    <2> HIDE DEF Table
    <2>. QED BY <2>2, <2>10
  <1>7. NRewards \in Sound
    <2> HIDE DEF Sound
    <2>1. \A k \in 0..NRewards : k \in Sound
      BY <1>2, <1>5, <1>6, UpTo
    <2>. QED BY <1>2, <2>1
  <1>8. iter = CHOOSE g : Table(NRewards, g)
    BY <1>2
  <1>9. Table(NRewards, iter)
    <2> HIDE DEF Table, iter
    <2>1. \E g : Table(NRewards, g)
      BY <1>7
    <2>. QED BY <1>8, <2>1
  <1> HIDE DEF iter, Sound
  <1>10. \A s \in SUBSET (1..NRewards) : iter[s] = Rest(iter, s)
    BY <1>9
  <1> DEFINE g == [k \in 0..NRewards |-> iter[1..k]]
  <1>11. g[0] = x
    <2>1. 1..0 = {} /\ {} \in SUBSET (1..NRewards)
      OBVIOUS
    <2>2. iter[{}] = x
      BY <1>4, <1>10, <2>1
    <2>3. 0 \in 0..NRewards
      BY <1>2
    <2>. QED BY <2>1, <2>2, <2>3
  <1>12. ASSUME NEW k \in 0..(NRewards - 1)
         PROVE  g[k + 1] = Dealt(g[k], seq[k + 1])
    <2>1. /\ 1..(k + 1) \subseteq 1..NRewards /\ k + 1 \in 1..(k + 1)
          /\ k \in Nat /\ k \in 0..NRewards /\ k + 1 \in 0..NRewards
      BY <1>2
    <2>2. Max(1..(k + 1)) = k + 1
      BY <2>1, MaxIs
    <2>3. (1..(k + 1)) \ {k + 1} = 1..k
      BY <2>1
    <2>4. iter[1..(k + 1)] = Rest(iter, 1..(k + 1)) /\ 1..(k + 1) # {}
      BY <1>10, <2>1
    <2>5. iter[1..(k + 1)] = Dealt(iter[1..k], seq[k + 1])
      BY <1>4, <2>2, <2>3, <2>4
    <2>. QED BY <2>1, <2>5
  <1>13. Deactivated(x, y, reported).holding = g[NRewards]
    BY <1>1, <1>2
  <1> HIDE DEF g
  <1>14. \A k \in 0..(NRewards - 1) : k + 1 \in Rewards /\ seq[k + 1] = k + 1
    BY <1>2 DEF Rewards, seq
  <1>15. ASSUME NEW k \in 0..(NRewards - 1)
         PROVE  g[k + 1] = (IF k + 1 \in y.keys /\ ~Reward[k + 1].persistent
                       THEN Invalidated(g[k], k + 1, reported) ELSE g[k])
    BY <1>12, <1>14 DEF Dealt
  <1>. QED BY <1>11, <1>13, <1>15

\* A rule that starts, reward by reward.
LEMMA StartedChain ==
    ASSUME NEW x, NEW y, NEW v, NEW rolled, NEW reported
    PROVE  \E g : /\ g[0] = x /\ Started(x, y, v, rolled, reported).holding = g[NRewards]
                  /\ \A k \in 0..(NRewards - 1) : g[k + 1] = (IF k + 1 \notin rolled THEN g[k]
                       ELSE IF Reward[k + 1].persistent /\ k + 1 \in y.persistentKeys
                       THEN RestoredReward(g[k], k + 1, reported) ELSE Granted(g[k], k + 1, reported))
  <1> DEFINE Dealt(b, w) ==
                IF w \notin rolled THEN b
                ELSE IF Reward[w].persistent /\ w \in y.persistentKeys
                THEN RestoredReward(b, w, reported) ELSE Granted(b, w, reported)
             seq == [w \in Rewards |-> w]
             Rest(g, s) == IF s = {} THEN x ELSE Dealt(g[s \ {Max(s)}], seq[Max(s)])
             iter == CHOOSE g : g = [s \in SUBSET DOMAIN seq |-> Rest(g, s)]
             Table(k, g) == g = [s \in SUBSET (1..k) |-> Rest(g, s)]
             Sound == {k \in 0..NRewards : \E g : Table(k, g)}
  <1>1. Started(x, y, v, rolled, reported).holding = iter[DOMAIN seq]
    BY DEF Started, InOrder, FoldLeft, MapThenFoldSet
  <1>2. DOMAIN seq = 1..NRewards /\ NRewards \in Nat
    BY RewardAssumption DEF Rewards
  <1> HIDE DEF Dealt, seq
  <1>3. \A g, h, s : s = {} \/ g[s \ {Max(s)}] = h[s \ {Max(s)}] => Rest(g, s) = Rest(h, s)
    OBVIOUS
  <1>4. /\ \A g : Rest(g, {}) = x
        /\ \A g, s : s # {} => Rest(g, s) = Dealt(g[s \ {Max(s)}], seq[Max(s)])
    OBVIOUS
  <1> HIDE DEF Rest
  <1>5. 0 \in Sound
    <2> DEFINE h == [s \in SUBSET (1..0) |-> x]
               f == [s \in SUBSET (1..0) |-> Rest(h, s)]
    <2>1. \A s \in SUBSET (1..0) : s = {}
      OBVIOUS
    <2>2. \A s \in SUBSET (1..0) : h[s] = f[s]
      BY <1>4, <2>1
    <2>3. h = f
      BY <2>2
    <2> HIDE DEF h
    <2>4. Table(0, h)
      BY <2>3
    <2> HIDE DEF Table
    <2>. QED BY <1>2, <2>4
  <1>6. ASSUME NEW k \in 0..(NRewards - 1), k \in Sound
        PROVE  k + 1 \in Sound
    <2>1. PICK g : Table(k, g)
      BY <1>6
    <2>2. k \in Nat /\ k + 1 \in 0..NRewards
      BY <1>2
    <2> DEFINE h == [s \in SUBSET (1..(k + 1)) |->
                        IF s \in SUBSET (1..k) THEN g[s] ELSE Rest(g, s)]
               f == [s \in SUBSET (1..(k + 1)) |-> Rest(h, s)]
    <2>3. \A s \in SUBSET (1..k) : g[s] = Rest(g, s)
      BY <2>1
    <2>4. 1..k \subseteq 1..(k + 1)
      BY <2>2
    <2>5. \A s \in SUBSET (1..k) : h[s] = g[s]
      BY <2>4
    <2>6. ASSUME NEW s \in SUBSET (1..(k + 1))
          PROVE  s \ {Max(s)} \in SUBSET (1..k)
      <3>1. CASE k + 1 \in s
        <4>1. Max(s) = k + 1
          BY <2>2, <3>1, MaxIs
        <4>2. \A i \in 1..(k + 1) : i # k + 1 => i \in 1..k
          BY <2>2
        <4>. QED BY <4>1, <4>2
      <3>2. CASE k + 1 \notin s
        <4>1. \A i \in 1..(k + 1) : i # k + 1 => i \in 1..k
          BY <2>2
        <4>. QED BY <3>2, <4>1
      <3>. QED BY <3>1, <3>2
    <2>7. \A s \in SUBSET (1..(k + 1)) : h[s] = Rest(g, s)
      BY <2>3
    <2>8. ASSUME NEW s \in SUBSET (1..(k + 1))
          PROVE  h[s] = f[s]
      <3>1. h[s \ {Max(s)}] = g[s \ {Max(s)}]
        BY <2>5, <2>6
      <3>2. f[s] = Rest(h, s)
        OBVIOUS
      <3>3. h[s] = Rest(g, s)
        BY <2>7
      <3> HIDE DEF h, f
      <3>4. Rest(g, s) = Rest(h, s)
        BY <1>3, <3>1
      <3>. QED BY <3>2, <3>3, <3>4
    <2>9. h = f
      BY <2>8
    <2> HIDE DEF h
    <2>10. Table(k + 1, h)
      BY <2>9
    <2> HIDE DEF Table
    <2>. QED BY <2>2, <2>10
  <1>7. NRewards \in Sound
    <2> HIDE DEF Sound
    <2>1. \A k \in 0..NRewards : k \in Sound
      BY <1>2, <1>5, <1>6, UpTo
    <2>. QED BY <1>2, <2>1
  <1>8. iter = CHOOSE g : Table(NRewards, g)
    BY <1>2
  <1>9. Table(NRewards, iter)
    <2> HIDE DEF Table, iter
    <2>1. \E g : Table(NRewards, g)
      BY <1>7
    <2>. QED BY <1>8, <2>1
  <1> HIDE DEF iter, Sound
  <1>10. \A s \in SUBSET (1..NRewards) : iter[s] = Rest(iter, s)
    BY <1>9
  <1> DEFINE g == [k \in 0..NRewards |-> iter[1..k]]
  <1>11. g[0] = x
    <2>1. 1..0 = {} /\ {} \in SUBSET (1..NRewards)
      OBVIOUS
    <2>2. iter[{}] = x
      BY <1>4, <1>10, <2>1
    <2>3. 0 \in 0..NRewards
      BY <1>2
    <2>. QED BY <2>1, <2>2, <2>3
  <1>12. ASSUME NEW k \in 0..(NRewards - 1)
         PROVE  g[k + 1] = Dealt(g[k], seq[k + 1])
    <2>1. /\ 1..(k + 1) \subseteq 1..NRewards /\ k + 1 \in 1..(k + 1)
          /\ k \in Nat /\ k \in 0..NRewards /\ k + 1 \in 0..NRewards
      BY <1>2
    <2>2. Max(1..(k + 1)) = k + 1
      BY <2>1, MaxIs
    <2>3. (1..(k + 1)) \ {k + 1} = 1..k
      BY <2>1
    <2>4. iter[1..(k + 1)] = Rest(iter, 1..(k + 1)) /\ 1..(k + 1) # {}
      BY <1>10, <2>1
    <2>5. iter[1..(k + 1)] = Dealt(iter[1..k], seq[k + 1])
      BY <1>4, <2>2, <2>3, <2>4
    <2>. QED BY <2>1, <2>5
  <1>13. Started(x, y, v, rolled, reported).holding = g[NRewards]
    BY <1>1, <1>2
  <1> HIDE DEF g
  <1>14. \A k \in 0..(NRewards - 1) : k + 1 \in Rewards /\ seq[k + 1] = k + 1
    BY <1>2 DEF Rewards, seq
  <1>15. ASSUME NEW k \in 0..(NRewards - 1)
         PROVE  g[k + 1] = (IF k + 1 \notin rolled THEN g[k]
                       ELSE IF Reward[k + 1].persistent /\ k + 1 \in y.persistentKeys
                       THEN RestoredReward(g[k], k + 1, reported) ELSE Granted(g[k], k + 1, reported))
    BY <1>12, <1>14 DEF Dealt
  <1>. QED BY <1>11, <1>13, <1>15

\* A rule that goes on, reward by reward.
LEMMA ContinuedChain ==
    ASSUME NEW x, NEW y, NEW v, NEW reported
    PROVE  \E g : /\ g[0] = x /\ Continued(x, y, v, reported).holding = g[NRewards]
                  /\ \A k \in 0..(NRewards - 1) : g[k + 1] = (IF k + 1 \in y.keys /\ Reward[k + 1].persistent
                       THEN RestoredReward(g[k], k + 1, reported) ELSE g[k])
  <1> DEFINE Dealt(b, w) ==
                IF w \in y.keys /\ Reward[w].persistent THEN RestoredReward(b, w, reported) ELSE b
             seq == [w \in Rewards |-> w]
             Rest(g, s) == IF s = {} THEN x ELSE Dealt(g[s \ {Max(s)}], seq[Max(s)])
             iter == CHOOSE g : g = [s \in SUBSET DOMAIN seq |-> Rest(g, s)]
             Table(k, g) == g = [s \in SUBSET (1..k) |-> Rest(g, s)]
             Sound == {k \in 0..NRewards : \E g : Table(k, g)}
  <1>1. Continued(x, y, v, reported).holding = iter[DOMAIN seq]
    BY DEF Continued, InOrder, FoldLeft, MapThenFoldSet
  <1>2. DOMAIN seq = 1..NRewards /\ NRewards \in Nat
    BY RewardAssumption DEF Rewards
  <1> HIDE DEF Dealt, seq
  <1>3. \A g, h, s : s = {} \/ g[s \ {Max(s)}] = h[s \ {Max(s)}] => Rest(g, s) = Rest(h, s)
    OBVIOUS
  <1>4. /\ \A g : Rest(g, {}) = x
        /\ \A g, s : s # {} => Rest(g, s) = Dealt(g[s \ {Max(s)}], seq[Max(s)])
    OBVIOUS
  <1> HIDE DEF Rest
  <1>5. 0 \in Sound
    <2> DEFINE h == [s \in SUBSET (1..0) |-> x]
               f == [s \in SUBSET (1..0) |-> Rest(h, s)]
    <2>1. \A s \in SUBSET (1..0) : s = {}
      OBVIOUS
    <2>2. \A s \in SUBSET (1..0) : h[s] = f[s]
      BY <1>4, <2>1
    <2>3. h = f
      BY <2>2
    <2> HIDE DEF h
    <2>4. Table(0, h)
      BY <2>3
    <2> HIDE DEF Table
    <2>. QED BY <1>2, <2>4
  <1>6. ASSUME NEW k \in 0..(NRewards - 1), k \in Sound
        PROVE  k + 1 \in Sound
    <2>1. PICK g : Table(k, g)
      BY <1>6
    <2>2. k \in Nat /\ k + 1 \in 0..NRewards
      BY <1>2
    <2> DEFINE h == [s \in SUBSET (1..(k + 1)) |->
                        IF s \in SUBSET (1..k) THEN g[s] ELSE Rest(g, s)]
               f == [s \in SUBSET (1..(k + 1)) |-> Rest(h, s)]
    <2>3. \A s \in SUBSET (1..k) : g[s] = Rest(g, s)
      BY <2>1
    <2>4. 1..k \subseteq 1..(k + 1)
      BY <2>2
    <2>5. \A s \in SUBSET (1..k) : h[s] = g[s]
      BY <2>4
    <2>6. ASSUME NEW s \in SUBSET (1..(k + 1))
          PROVE  s \ {Max(s)} \in SUBSET (1..k)
      <3>1. CASE k + 1 \in s
        <4>1. Max(s) = k + 1
          BY <2>2, <3>1, MaxIs
        <4>2. \A i \in 1..(k + 1) : i # k + 1 => i \in 1..k
          BY <2>2
        <4>. QED BY <4>1, <4>2
      <3>2. CASE k + 1 \notin s
        <4>1. \A i \in 1..(k + 1) : i # k + 1 => i \in 1..k
          BY <2>2
        <4>. QED BY <3>2, <4>1
      <3>. QED BY <3>1, <3>2
    <2>7. \A s \in SUBSET (1..(k + 1)) : h[s] = Rest(g, s)
      BY <2>3
    <2>8. ASSUME NEW s \in SUBSET (1..(k + 1))
          PROVE  h[s] = f[s]
      <3>1. h[s \ {Max(s)}] = g[s \ {Max(s)}]
        BY <2>5, <2>6
      <3>2. f[s] = Rest(h, s)
        OBVIOUS
      <3>3. h[s] = Rest(g, s)
        BY <2>7
      <3> HIDE DEF h, f
      <3>4. Rest(g, s) = Rest(h, s)
        BY <1>3, <3>1
      <3>. QED BY <3>2, <3>3, <3>4
    <2>9. h = f
      BY <2>8
    <2> HIDE DEF h
    <2>10. Table(k + 1, h)
      BY <2>9
    <2> HIDE DEF Table
    <2>. QED BY <2>2, <2>10
  <1>7. NRewards \in Sound
    <2> HIDE DEF Sound
    <2>1. \A k \in 0..NRewards : k \in Sound
      BY <1>2, <1>5, <1>6, UpTo
    <2>. QED BY <1>2, <2>1
  <1>8. iter = CHOOSE g : Table(NRewards, g)
    BY <1>2
  <1>9. Table(NRewards, iter)
    <2> HIDE DEF Table, iter
    <2>1. \E g : Table(NRewards, g)
      BY <1>7
    <2>. QED BY <1>8, <2>1
  <1> HIDE DEF iter, Sound
  <1>10. \A s \in SUBSET (1..NRewards) : iter[s] = Rest(iter, s)
    BY <1>9
  <1> DEFINE g == [k \in 0..NRewards |-> iter[1..k]]
  <1>11. g[0] = x
    <2>1. 1..0 = {} /\ {} \in SUBSET (1..NRewards)
      OBVIOUS
    <2>2. iter[{}] = x
      BY <1>4, <1>10, <2>1
    <2>3. 0 \in 0..NRewards
      BY <1>2
    <2>. QED BY <2>1, <2>2, <2>3
  <1>12. ASSUME NEW k \in 0..(NRewards - 1)
         PROVE  g[k + 1] = Dealt(g[k], seq[k + 1])
    <2>1. /\ 1..(k + 1) \subseteq 1..NRewards /\ k + 1 \in 1..(k + 1)
          /\ k \in Nat /\ k \in 0..NRewards /\ k + 1 \in 0..NRewards
      BY <1>2
    <2>2. Max(1..(k + 1)) = k + 1
      BY <2>1, MaxIs
    <2>3. (1..(k + 1)) \ {k + 1} = 1..k
      BY <2>1
    <2>4. iter[1..(k + 1)] = Rest(iter, 1..(k + 1)) /\ 1..(k + 1) # {}
      BY <1>10, <2>1
    <2>5. iter[1..(k + 1)] = Dealt(iter[1..k], seq[k + 1])
      BY <1>4, <2>2, <2>3, <2>4
    <2>. QED BY <2>1, <2>5
  <1>13. Continued(x, y, v, reported).holding = g[NRewards]
    BY <1>1, <1>2
  <1> HIDE DEF g
  <1>14. \A k \in 0..(NRewards - 1) : k + 1 \in Rewards /\ seq[k + 1] = k + 1
    BY <1>2 DEF Rewards, seq
  <1>15. ASSUME NEW k \in 0..(NRewards - 1)
         PROVE  g[k + 1] = (IF k + 1 \in y.keys /\ Reward[k + 1].persistent
                       THEN RestoredReward(g[k], k + 1, reported) ELSE g[k])
    BY <1>12, <1>14 DEF Dealt
  <1>. QED BY <1>11, <1>13, <1>15

----------------------------------------------------------------------------
(* The rewards of a rule, one after the other.                            *)

\* What holds of one reward's books depends on the books of its item only.
LEMMA SameBooks ==
    ASSUME NEW w \in Rewards, NEW h, NEW g, SameItem(h, g, Reward[w].item)
    PROVE  /\ g.stock[Reward[w].item] = h.stock[Reward[w].item]
           /\ (Key(w) \in DOMAIN g.ledger) <=> (Key(w) \in DOMAIN h.ledger)
           /\ Expected(g, Key(w)) = Expected(h, Key(w))
           /\ Missing(g, Key(w)) = Missing(h, Key(w))
  BY RewardIs DEF SameItem, Expected, Missing

LEMMA SameOn ==
    ASSUME NEW f, NEW g, NEW h, NEW i, SameItem(f, g, i), SameItem(g, h, i)
    PROVE  SameItem(f, h, i)
  BY DEF SameItem

\* The rewards are dealt with one after the other: what is held stays well-formed.
LEMMA ChainWell ==
    ASSUME NEW g, HoldingWell(g[0]),
           \A k \in 0..(NRewards - 1) : HoldingWell(g[k]) => HoldingWell(g[k + 1])
    PROVE  \A k \in 0..NRewards : HoldingWell(g[k])
  <1> DEFINE Well == {k \in 0..NRewards : HoldingWell(g[k])}
  <1>1. NRewards \in Nat
    BY RewardAssumption
  <1>2. 0 \in Well
    BY <1>1
  <1>3. \A k \in 0..(NRewards - 1) : k \in Well => k + 1 \in Well
    BY <1>1
  <1>4. \A k \in 0..NRewards : k \in Well
    <2> HIDE DEF Well
    <2>. QED BY <1>1, <1>2, <1>3, UpTo
  <1>. QED BY <1>4

\* The books of an item that only one of the rewards is of change at that one.
LEMMA ChainIs ==
    ASSUME NEW w \in Rewards, Alone(w), NEW g, HoldingWell(g[0]),
           \A k \in 0..(NRewards - 1) : HoldingWell(g[k]) =>
              HoldingWell(g[k + 1]) /\ Others(g[k], g[k + 1], Reward[k + 1].item)
    PROVE  /\ w - 1 \in 0..(NRewards - 1) /\ HoldingWell(g[NRewards]) /\ HoldingWell(g[w - 1])
           /\ SameItem(g[0], g[w - 1], Reward[w].item)
           /\ SameItem(g[w], g[NRewards], Reward[w].item)
  <1> DEFINE i == Reward[w].item
             Early == {k \in 0..NRewards : k < w => SameItem(g[0], g[k], i)}
             Late == {k \in 0..NRewards : k >= w => SameItem(g[w], g[k], i)}
  <1>1. NRewards \in Nat /\ w \in 1..NRewards /\ i \in Items
    BY RewardAssumption, RewardIs DEF Rewards
  <1>2. \A h : SameItem(h, h, i)
    BY DEF SameItem
  <1>3. \A k \in 0..NRewards : HoldingWell(g[k])
    BY ChainWell
  <1>4. ASSUME NEW k \in 0..(NRewards - 1), k + 1 # w
        PROVE  SameItem(g[k], g[k + 1], i)
    <2>1. k + 1 \in Rewards /\ HoldingWell(g[k])
      BY <1>1, <1>3 DEF Rewards
    <2>2. Reward[k + 1].item # i
      BY <1>4, <2>1 DEF Alone
    <2>. QED BY <1>1, <2>1, <2>2 DEF Others
  <1>5. \A k \in 0..NRewards : k \in Early
    <2>1. 0 \in Early
      BY <1>1, <1>2
    <2>2. ASSUME NEW k \in 0..(NRewards - 1), k \in Early
          PROVE  k + 1 \in Early
      <3>1. k + 1 < w => SameItem(g[0], g[k], i) /\ SameItem(g[k], g[k + 1], i)
        BY <1>1, <1>4, <2>2
      <3> HIDE DEF i
      <3>. QED BY <1>1, <3>1, SameOn
    <2> HIDE DEF Early
    <2>. QED BY <1>1, <2>1, <2>2, UpTo
  <1>6. \A k \in 0..NRewards : k \in Late
    <2>1. 0 \in Late
      BY <1>1
    <2>2. ASSUME NEW k \in 0..(NRewards - 1), k \in Late
          PROVE  k + 1 \in Late
      <3>1. k >= w => SameItem(g[w], g[k], i) /\ SameItem(g[k], g[k + 1], i)
        BY <1>1, <1>4, <2>2
      <3> HIDE DEF i
      <3>. QED BY <1>1, <1>2, <3>1, SameOn
    <2> HIDE DEF Late
    <2>. QED BY <1>1, <2>1, <2>2, UpTo
  <1>7. w - 1 \in 0..(NRewards - 1) /\ w - 1 \in 0..NRewards /\ w - 1 < w /\ NRewards >= w
    BY <1>1
  <1>. QED BY <1>1, <1>3, <1>5, <1>6, <1>7

\* The holding that a rule leaves when it ends is well-formed.
LEMMA EndedWell ==
    ASSUME NEW x, HoldingWell(x), NEW y, NEW reported \in BOOLEAN
    PROVE  HoldingWell(Deactivated(x, y, reported).holding)
  <1>1. PICK g : /\ g[0] = x /\ Deactivated(x, y, reported).holding = g[NRewards]
                 /\ \A k \in 0..(NRewards - 1) :
                       g[k + 1] = (IF k + 1 \in y.keys /\ ~Reward[k + 1].persistent
                                   THEN Invalidated(g[k], k + 1, reported) ELSE g[k])
    BY DeactivatedChain
  <1>2. \A k \in 0..(NRewards - 1) : k + 1 \in Rewards
    BY RewardAssumption DEF Rewards
  <1>4. ASSUME NEW k \in 0..(NRewards - 1), HoldingWell(g[k])
        PROVE  HoldingWell(g[k + 1])
    <2>1. HoldingWell(Invalidated(g[k], k + 1, reported))
      BY <1>2, <1>4, InvalidatedIs
    <2>. QED BY <1>1, <1>4, <2>1
  <1>5. NRewards \in 0..NRewards
    BY RewardAssumption
  <1>. QED BY <1>1, <1>4, <1>5, ChainWell

\* The holding that a rule leaves when it ends, for a reward alone of its item.
LEMMA EndedIs ==
    ASSUME NEW w \in Rewards, Alone(w), NEW x, HoldingWell(x), NEW y, NEW reported \in BOOLEAN,
           NEW z, z = Deactivated(x, y, reported).holding
    PROVE  /\ HoldingWell(z)
           /\ \/ /\ w \notin y.keys \/ Reward[w].persistent
                 /\ SameItem(x, z, Reward[w].item)
              \/ /\ w \in y.keys /\ ~Reward[w].persistent
                 /\ \E a : /\ HoldingWell(a) /\ SameItem(x, a, Reward[w].item)
                           /\ SameItem(Invalidated(a, w, reported), z, Reward[w].item)
  <1>1. PICK g : /\ g[0] = x /\ Deactivated(x, y, reported).holding = g[NRewards]
                 /\ \A k \in 0..(NRewards - 1) :
                       g[k + 1] = (IF k + 1 \in y.keys /\ ~Reward[k + 1].persistent
                                   THEN Invalidated(g[k], k + 1, reported) ELSE g[k])
    BY DeactivatedChain
  <1>2. \A k \in 0..(NRewards - 1) : k + 1 \in Rewards
    BY RewardAssumption DEF Rewards
  <1>3. \A h, i : Others(h, h, i)
    BY DEF Others, SameItem
  <1>4. ASSUME NEW k \in 0..(NRewards - 1), HoldingWell(g[k])
        PROVE  HoldingWell(g[k + 1]) /\ Others(g[k], g[k + 1], Reward[k + 1].item)
    <2>1. /\ HoldingWell(Invalidated(g[k], k + 1, reported))
          /\ Others(g[k], Invalidated(g[k], k + 1, reported), Reward[k + 1].item)
      BY <1>2, <1>4, InvalidatedIs
    <2>. QED BY <1>1, <1>3, <1>4, <2>1
  <1>5. /\ w - 1 \in 0..(NRewards - 1) /\ HoldingWell(g[NRewards]) /\ HoldingWell(g[w - 1])
        /\ SameItem(g[0], g[w - 1], Reward[w].item)
        /\ SameItem(g[w], g[NRewards], Reward[w].item)
    BY <1>1, <1>4, ChainIs
  <1>6. (w - 1) + 1 = w
    BY <1>5 DEF Rewards
  <1>7. g[w] = (IF w \in y.keys /\ ~Reward[w].persistent
                THEN Invalidated(g[w - 1], w, reported) ELSE g[w - 1])
    BY <1>1, <1>5, <1>6
  <1>8. CASE w \in y.keys /\ ~Reward[w].persistent
    BY <1>1, <1>5, <1>7, <1>8
  <1>9. CASE ~(w \in y.keys /\ ~Reward[w].persistent)
    <2>1. g[w] = g[w - 1]
      BY <1>7, <1>9
    <2>. QED BY <1>1, <1>5, <1>9, <2>1, SameOn
  <1>. QED BY <1>8, <1>9

\* The holding that a rule leaves when it starts is well-formed.
LEMMA StartedWell ==
    ASSUME NEW x, HoldingWell(x), NEW y, NEW v, NEW rolled, NEW reported \in BOOLEAN
    PROVE  HoldingWell(Started(x, y, v, rolled, reported).holding)
  <1>1. PICK g : /\ g[0] = x /\ Started(x, y, v, rolled, reported).holding = g[NRewards]
                 /\ \A k \in 0..(NRewards - 1) : g[k + 1] = (IF k + 1 \notin rolled THEN g[k]
                       ELSE IF Reward[k + 1].persistent /\ k + 1 \in y.persistentKeys
                       THEN RestoredReward(g[k], k + 1, reported)
                       ELSE Granted(g[k], k + 1, reported))
    BY StartedChain
  <1>2. \A k \in 0..(NRewards - 1) : k + 1 \in Rewards
    BY RewardAssumption DEF Rewards
  <1>4. ASSUME NEW k \in 0..(NRewards - 1), HoldingWell(g[k])
        PROVE  HoldingWell(g[k + 1])
    <2>1. HoldingWell(RestoredReward(g[k], k + 1, reported))
      BY <1>2, <1>4, RestoredIs
    <2>2. HoldingWell(Granted(g[k], k + 1, reported))
      BY <1>2, <1>4, GrantedIs
    <2>. QED BY <1>1, <1>4, <2>1, <2>2
  <1>5. NRewards \in 0..NRewards
    BY RewardAssumption
  <1>. QED BY <1>1, <1>4, <1>5, ChainWell

\* The holding that a rule leaves when it starts, for a reward alone of its item.
LEMMA StartedIs ==
    ASSUME NEW w \in Rewards, Alone(w), NEW x, HoldingWell(x), NEW y, NEW v, NEW rolled,
           NEW reported \in BOOLEAN, NEW z, z = Started(x, y, v, rolled, reported).holding
    PROVE  /\ HoldingWell(z)
           /\ \/ w \notin rolled /\ SameItem(x, z, Reward[w].item)
              \/ /\ w \in rolled /\ Reward[w].persistent /\ w \in y.persistentKeys
                 /\ \E a : /\ HoldingWell(a) /\ SameItem(x, a, Reward[w].item)
                           /\ SameItem(RestoredReward(a, w, reported), z, Reward[w].item)
              \/ /\ w \in rolled /\ ~(Reward[w].persistent /\ w \in y.persistentKeys)
                 /\ \E a : /\ HoldingWell(a) /\ SameItem(x, a, Reward[w].item)
                           /\ SameItem(Granted(a, w, reported), z, Reward[w].item)
  <1>1. PICK g : /\ g[0] = x /\ Started(x, y, v, rolled, reported).holding = g[NRewards]
                 /\ \A k \in 0..(NRewards - 1) : g[k + 1] = (IF k + 1 \notin rolled THEN g[k]
                       ELSE IF Reward[k + 1].persistent /\ k + 1 \in y.persistentKeys
                       THEN RestoredReward(g[k], k + 1, reported)
                       ELSE Granted(g[k], k + 1, reported))
    BY StartedChain
  <1>2. \A k \in 0..(NRewards - 1) : k + 1 \in Rewards
    BY RewardAssumption DEF Rewards
  <1>3. \A h, i : Others(h, h, i)
    BY DEF Others, SameItem
  <1>4. ASSUME NEW k \in 0..(NRewards - 1), HoldingWell(g[k])
        PROVE  HoldingWell(g[k + 1]) /\ Others(g[k], g[k + 1], Reward[k + 1].item)
    <2>1. /\ HoldingWell(RestoredReward(g[k], k + 1, reported))
          /\ Others(g[k], RestoredReward(g[k], k + 1, reported), Reward[k + 1].item)
      BY <1>2, <1>4, RestoredIs
    <2>2. /\ HoldingWell(Granted(g[k], k + 1, reported))
          /\ Others(g[k], Granted(g[k], k + 1, reported), Reward[k + 1].item)
      BY <1>2, <1>4, GrantedIs
    <2>. QED BY <1>1, <1>3, <1>4, <2>1, <2>2
  <1>5. /\ w - 1 \in 0..(NRewards - 1) /\ HoldingWell(g[NRewards]) /\ HoldingWell(g[w - 1])
        /\ SameItem(g[0], g[w - 1], Reward[w].item)
        /\ SameItem(g[w], g[NRewards], Reward[w].item)
    BY <1>1, <1>4, ChainIs
  <1>6. (w - 1) + 1 = w
    BY <1>5 DEF Rewards
  <1>7. g[w] = (IF w \notin rolled THEN g[w - 1]
                ELSE IF Reward[w].persistent /\ w \in y.persistentKeys
                THEN RestoredReward(g[w - 1], w, reported) ELSE Granted(g[w - 1], w, reported))
    BY <1>1, <1>5, <1>6
  <1>8. CASE w \notin rolled
    <2>1. g[w] = g[w - 1]
      BY <1>7, <1>8
    <2>. QED BY <1>1, <1>5, <1>8, <2>1, SameOn
  <1>9. CASE w \in rolled /\ Reward[w].persistent /\ w \in y.persistentKeys
    BY <1>1, <1>5, <1>7, <1>9
  <1>10. CASE w \in rolled /\ ~(Reward[w].persistent /\ w \in y.persistentKeys)
    BY <1>1, <1>5, <1>7, <1>10
  <1>. QED BY <1>8, <1>9, <1>10

\* The holding that a rule leaves when it goes on is well-formed.
LEMMA ContinuedWell ==
    ASSUME NEW x, HoldingWell(x), NEW y, NEW v, NEW reported \in BOOLEAN
    PROVE  HoldingWell(Continued(x, y, v, reported).holding)
  <1>1. PICK g : /\ g[0] = x /\ Continued(x, y, v, reported).holding = g[NRewards]
                 /\ \A k \in 0..(NRewards - 1) :
                       g[k + 1] = (IF k + 1 \in y.keys /\ Reward[k + 1].persistent
                                   THEN RestoredReward(g[k], k + 1, reported) ELSE g[k])
    BY ContinuedChain
  <1>2. \A k \in 0..(NRewards - 1) : k + 1 \in Rewards
    BY RewardAssumption DEF Rewards
  <1>4. ASSUME NEW k \in 0..(NRewards - 1), HoldingWell(g[k])
        PROVE  HoldingWell(g[k + 1])
    <2>1. HoldingWell(RestoredReward(g[k], k + 1, reported))
      BY <1>2, <1>4, RestoredIs
    <2>. QED BY <1>1, <1>4, <2>1
  <1>5. NRewards \in 0..NRewards
    BY RewardAssumption
  <1>. QED BY <1>1, <1>4, <1>5, ChainWell

\* The holding that a rule leaves when it goes on, for a reward alone of its item.
LEMMA ContinuedIs ==
    ASSUME NEW w \in Rewards, Alone(w), NEW x, HoldingWell(x), NEW y, NEW v,
           NEW reported \in BOOLEAN, NEW z, z = Continued(x, y, v, reported).holding
    PROVE  /\ HoldingWell(z)
           /\ \/ /\ w \notin y.keys \/ ~Reward[w].persistent
                 /\ SameItem(x, z, Reward[w].item)
              \/ /\ w \in y.keys /\ Reward[w].persistent
                 /\ \E a : /\ HoldingWell(a) /\ SameItem(x, a, Reward[w].item)
                           /\ SameItem(RestoredReward(a, w, reported), z, Reward[w].item)
  <1>1. PICK g : /\ g[0] = x /\ Continued(x, y, v, reported).holding = g[NRewards]
                 /\ \A k \in 0..(NRewards - 1) :
                       g[k + 1] = (IF k + 1 \in y.keys /\ Reward[k + 1].persistent
                                   THEN RestoredReward(g[k], k + 1, reported) ELSE g[k])
    BY ContinuedChain
  <1>2. \A k \in 0..(NRewards - 1) : k + 1 \in Rewards
    BY RewardAssumption DEF Rewards
  <1>3. \A h, i : Others(h, h, i)
    BY DEF Others, SameItem
  <1>4. ASSUME NEW k \in 0..(NRewards - 1), HoldingWell(g[k])
        PROVE  HoldingWell(g[k + 1]) /\ Others(g[k], g[k + 1], Reward[k + 1].item)
    <2>1. /\ HoldingWell(RestoredReward(g[k], k + 1, reported))
          /\ Others(g[k], RestoredReward(g[k], k + 1, reported), Reward[k + 1].item)
      BY <1>2, <1>4, RestoredIs
    <2>. QED BY <1>1, <1>3, <1>4, <2>1
  <1>5. /\ w - 1 \in 0..(NRewards - 1) /\ HoldingWell(g[NRewards]) /\ HoldingWell(g[w - 1])
        /\ SameItem(g[0], g[w - 1], Reward[w].item)
        /\ SameItem(g[w], g[NRewards], Reward[w].item)
    BY <1>1, <1>4, ChainIs
  <1>6. (w - 1) + 1 = w
    BY <1>5 DEF Rewards
  <1>7. g[w] = (IF w \in y.keys /\ Reward[w].persistent
                THEN RestoredReward(g[w - 1], w, reported) ELSE g[w - 1])
    BY <1>1, <1>5, <1>6
  <1>8. CASE w \in y.keys /\ Reward[w].persistent
    BY <1>1, <1>5, <1>7, <1>8
  <1>9. CASE ~(w \in y.keys /\ Reward[w].persistent)
    <2>1. g[w] = g[w - 1]
      BY <1>7, <1>9
    <2>. QED BY <1>1, <1>5, <1>9, <2>1, SameOn
  <1>. QED BY <1>8, <1>9

----------------------------------------------------------------------------
(* The books of a reward that is alone of its item.                       *)

\* The books of a temporary reward that is alone of its item: of the copies in the world
\* none is unaccounted for, no more are outside than are missing, and the actor has no
\* more than the ledger would take from it.
Even(h, w, o) ==
    /\ h.stock[Reward[w].item] + o <= Native[Reward[w].item] + Expected(h, Key(w))
    /\ o <= Native[Reward[w].item] + Missing(h, Key(w))
    /\ h.stock[Reward[w].item] + Missing(h, Key(w))
          <= Native[Reward[w].item] + Expected(h, Key(w))

\* It was granted once for each of f fresh starts, and once more if the rule has it.
Fair(h, w, f, s) ==
    Expected(h, Key(w)) <= Reward[w].amount * (f + (IF w \in s.keys THEN 1 ELSE 0))

\* The books of a persistent reward: the rule that has it has an entry for it, and what
\* is missing of a grant is outside.
Kept(h, w, o, s) ==
    /\ w \in s.keys \cup s.persistentKeys => Key(w) \in DOMAIN h.ledger
    /\ Key(w) \in DOMAIN h.ledger =>
          /\ Expected(h, Key(w)) >= Reward[w].amount
          /\ Missing(h, Key(w)) + Reward[w].amount <= o + Expected(h, Key(w))

Books(h, w, o, f, s) ==
    IF Reward[w].persistent THEN Kept(h, w, o, s) ELSE Even(h, w, o) /\ Fair(h, w, f, s)

LEMMA BooksNumbers ==
    ASSUME NEW w \in Rewards, NEW h, HoldingWell(h)
    PROVE  /\ h.stock[Reward[w].item] \in Nat /\ Expected(h, Key(w)) \in Nat
           /\ Missing(h, Key(w)) \in Nat /\ Missing(h, Key(w)) <= Expected(h, Key(w))
           /\ Reward[w].amount \in Nat /\ Reward[w].amount > 0
           /\ Native[Reward[w].item] \in Nat
  BY EntryIs, RewardIs DEF HoldingWell

LEMMA BooksSame ==
    ASSUME NEW w \in Rewards, NEW h, NEW g, SameItem(h, g, Reward[w].item),
           NEW o, NEW f, NEW s, Books(h, w, o, f, s)
    PROVE  Books(g, w, o, f, s)
  BY SameBooks DEF Books, Even, Fair, Kept

LEMMA OneMore ==
    ASSUME NEW a \in Nat, NEW f \in Nat
    PROVE  a * (f + 1) = a * f + a /\ a * (f + 0) = a * f /\ a * f \in Nat
  OBVIOUS

\* What a rule's end does to the books of its rewards: nothing is left of a temporary
\* one beyond what the actor had, and its entry only stays if something is missing.
LEMMA EndedBooks ==
    ASSUME NEW w \in Rewards, Alone(w), NEW x, HoldingWell(x), NEW o \in Nat, NEW f \in Nat,
           NEW s, s.keys \subseteq Rewards, Books(x, w, o, f, s), NEW reported \in BOOLEAN,
           NEW d, d = Deactivated(x, s, reported)
    PROVE  /\ HoldingWell(d.holding)
           /\ w \notin s.keys => SameItem(x, d.holding, Reward[w].item)
           /\ s = [version |-> s.version, active |-> s.active, canReroll |-> s.canReroll,
                   keys |-> s.keys, persistentKeys |-> s.persistentKeys] =>
                Books(d.holding, w, o, f, d.record)
           /\ w \in s.keys /\ ~Reward[w].persistent =>
                d.holding.stock[Reward[w].item] <= Native[Reward[w].item]
  <1> DEFINE z == Deactivated(x, s, reported).holding
             i == Reward[w].item
             k == Key(w)
             outstanding == \E v \in s.keys : Outstanding(z, v)
             record == [s EXCEPT !.active = FALSE, !.canReroll = ~outstanding,
                                 !.keys = IF outstanding THEN @ ELSE {}]
  <1>1. d.holding = z /\ d.record = record
    BY DEF Deactivated
  <1>2. /\ HoldingWell(z)
        /\ \/ /\ w \notin s.keys \/ Reward[w].persistent
              /\ SameItem(x, z, i)
           \/ /\ w \in s.keys /\ ~Reward[w].persistent
              /\ \E a : /\ HoldingWell(a) /\ SameItem(x, a, i)
                        /\ SameItem(Invalidated(a, w, reported), z, i)
    BY EndedIs
  <1> HIDE DEF z
  <1>3. s = [version |-> s.version, active |-> s.active, canReroll |-> s.canReroll,
             keys |-> s.keys, persistentKeys |-> s.persistentKeys] =>
           /\ record.keys = (IF outstanding THEN s.keys ELSE {})
           /\ record.persistentKeys = s.persistentKeys
    OBVIOUS
  <1> HIDE DEF record
  <1>4. CASE SameItem(x, z, i) /\ (w \notin s.keys \/ Reward[w].persistent)
    <2>1. Books(z, w, o, f, s)
      BY <1>4, BooksSame
    <2>2. /\ record.keys \subseteq s.keys /\ record.persistentKeys = s.persistentKeys
          => Books(z, w, o, f, record)
      BY <1>4, <2>1 DEF Books, Fair, Kept
    <2>. QED BY <1>1, <1>2, <1>3, <1>4, <2>2
  <1>5. CASE w \in s.keys /\ ~Reward[w].persistent
    <2>1. PICK a : /\ HoldingWell(a) /\ SameItem(x, a, i)
                   /\ SameItem(Invalidated(a, w, reported), z, i)
      BY <1>2, <1>5
    <2>2. Books(a, w, o, f, s)
      BY <2>1, BooksSame
    <2>3. OnlyEntry(a, k) /\ ~Before(k, k)
      BY <2>1, AloneIsOnly
    <2>4. /\ a.stock[i] \in Nat /\ Expected(a, k) \in Nat
          /\ Missing(a, k) \in Nat /\ Missing(a, k) <= Expected(a, k)
          /\ Reward[w].amount \in Nat /\ Native[i] \in Nat
      BY <2>1, BooksNumbers
    <2> DEFINE b == Invalidated(a, w, reported)
               p == IF k \in DOMAIN a.ledger THEN Expected(a, k) - Missing(a, k)
                    ELSE Reward[w].amount
    <2>5. /\ HoldingWell(b)
          /\ b.stock[i] = a.stock[i] - Less(a.stock[i], p)
          /\ k \notin DOMAIN a.ledger \/ Missing(a, k) = 0 => k \notin DOMAIN b.ledger
          /\ k \in DOMAIN a.ledger /\ Missing(a, k) > 0 =>
                /\ k \in DOMAIN b.ledger /\ Expected(b, k) = Expected(a, k)
                /\ \/ Missing(b, k) = Missing(a, k)
                   \/ Missing(b, k) = Missing(a, k) + Less(p, Less(a.stock[i], p))
      BY <2>1, <2>3, InvalidatedIs
    <2> HIDE DEF b
    <2>6. k \notin DOMAIN b.ledger => Expected(b, k) = 0 /\ Missing(b, k) = 0
      BY DEF Expected, Missing
    <2>7. k \notin DOMAIN a.ledger => Expected(a, k) = 0 /\ Missing(a, k) = 0
      BY DEF Expected, Missing
    <2> DEFINE S == a.stock[i]
               E == Expected(a, k)
               M == Missing(a, k)
    <2>8. S + o <= Native[i] + E /\ o <= Native[i] + M /\ S + M <= Native[i] + E
      BY <1>5, <2>2 DEF Books, Even
    <2>9. Even(b, w, o) /\ b.stock[i] <= Native[i] /\ Expected(b, k) <= E
          /\ (k \in DOMAIN b.ledger => Missing(b, k) > 0)
      <3>1. CASE k \in DOMAIN a.ledger /\ M > 0
        <4>1. p = E - M
          BY <3>1
        <4> HIDE DEF p
        <4>. QED BY <2>4, <2>5, <2>8, <3>1, <4>1 DEF Even, Less
      <3>2. CASE k \in DOMAIN a.ledger /\ M = 0
        <4>1. p = E
          BY <2>4, <3>2
        <4> HIDE DEF p
        <4>. QED BY <2>4, <2>5, <2>6, <2>8, <3>2, <4>1 DEF Even, Less
      <3>3. CASE k \notin DOMAIN a.ledger
        <4>1. p = Reward[w].amount
          BY <3>3
        <4> HIDE DEF p
        <4>. QED BY <2>4, <2>5, <2>6, <2>7, <2>8, <3>3, <4>1 DEF Even, Less
      <3>. QED BY <2>4, <3>1, <3>2, <3>3
    <2>10. /\ z.stock[i] = b.stock[i] /\ ((k \in DOMAIN z.ledger) <=> (k \in DOMAIN b.ledger))
           /\ Expected(z, k) = Expected(b, k) /\ Missing(z, k) = Missing(b, k)
      BY <2>1, SameBooks DEF b
    <2>11. Even(z, w, o) /\ z.stock[i] <= Native[i]
      BY <2>9, <2>10 DEF Even
    <2>12. k \in DOMAIN z.ledger => outstanding
      <3>1. k \in DOMAIN z.ledger => z.ledger[k].missing > 0
        BY <2>9, <2>10 DEF Missing
      <3>. QED BY <1>5, <3>1 DEF Outstanding
    <2>13. /\ record.keys = (IF outstanding THEN s.keys ELSE {}) => Fair(z, w, f, record)
      <3>1. E <= Reward[w].amount * (f + 1)
        BY <1>5, <2>2 DEF Books, Fair
      <3>2. CASE k \in DOMAIN z.ledger
        <4>1. record.keys = s.keys => w \in record.keys
          BY <1>5
        <4>2. Expected(z, k) <= E /\ Expected(z, k) \in Nat
          BY <1>2, <2>9, <2>10, BooksNumbers
        <4>3. Reward[w].amount * (f + 1) \in Nat
          BY <2>4, OneMore
        <4>4. Expected(z, k) <= Reward[w].amount * (f + 1)
          BY <2>4, <3>1, <4>2, <4>3
        <4>. QED BY <2>12, <3>2, <4>1, <4>4 DEF Fair
      <3>3. CASE k \notin DOMAIN z.ledger
        <4>1. Expected(z, k) = 0
          BY <3>3 DEF Expected
        <4>2. Reward[w].amount * (f + 1) \in Nat /\ Reward[w].amount * (f + 0) \in Nat
          BY <2>4, OneMore
        <4>. QED BY <4>1, <4>2 DEF Fair
      <3>. QED BY <3>2, <3>3
    <2>. QED BY <1>1, <1>2, <1>3, <1>5, <2>11, <2>13 DEF Books
  <1>. QED BY <1>2, <1>4, <1>5

\* What a rule's start does to the books of the rewards that were rolled.
LEMMA StartedBooks ==
    ASSUME NEW w \in Rewards, Alone(w), NEW x, HoldingWell(x), NEW o \in Nat, NEW f \in Nat,
           NEW s, s.keys = {}, Books(x, w, o, f, s), NEW v, NEW rolled,
           NEW reported \in BOOLEAN, NEW d, d = Started(x, s, v, rolled, reported)
    PROVE  /\ HoldingWell(d.holding)
           /\ w \notin rolled => SameItem(x, d.holding, Reward[w].item)
           /\ Books(d.holding, w, o, f, d.record)
           /\ w \in rolled /\ Reward[w].persistent =>
                d.holding.stock[Reward[w].item] + o >= Reward[w].amount
  <1> DEFINE z == Started(x, s, v, rolled, reported).holding
             i == Reward[w].item
             k == Key(w)
             n == Reward[w].amount
             again == s.persistentKeys \cup {u \in rolled : Reward[u].persistent}
  <1>1. d.holding = z /\ d.record.keys = rolled /\ d.record.persistentKeys = again
    BY DEF Started
  <1>2. /\ HoldingWell(z)
        /\ \/ w \notin rolled /\ SameItem(x, z, i)
           \/ /\ w \in rolled /\ Reward[w].persistent /\ w \in s.persistentKeys
              /\ \E a : /\ HoldingWell(a) /\ SameItem(x, a, i)
                        /\ SameItem(RestoredReward(a, w, reported), z, i)
           \/ /\ w \in rolled /\ ~(Reward[w].persistent /\ w \in s.persistentKeys)
              /\ \E a : /\ HoldingWell(a) /\ SameItem(x, a, i)
                        /\ SameItem(Granted(a, w, reported), z, i)
    BY StartedIs
  <1> HIDE DEF z
  <1>3. CASE w \notin rolled
    <2>1. SameItem(x, z, i)
      BY <1>2, <1>3
    <2>2. Books(z, w, o, f, s)
      BY <2>1, BooksSame
    <2>3. Books(z, w, o, f, d.record)
      BY <1>1, <1>3, <2>2 DEF Books, Fair, Kept
    <2>. QED BY <1>1, <1>2, <1>3, <2>1, <2>3
  <1>4. CASE w \in rolled /\ Reward[w].persistent /\ w \in s.persistentKeys
    <2>1. PICK a : /\ HoldingWell(a) /\ SameItem(x, a, i)
                   /\ SameItem(RestoredReward(a, w, reported), z, i)
      BY <1>2, <1>4
    <2>2. Books(a, w, o, f, s)
      BY <2>1, BooksSame
    <2>3. /\ k \in DOMAIN a.ledger /\ Expected(a, k) >= n
          /\ Missing(a, k) + n <= o + Expected(a, k)
      BY <1>4, <2>2 DEF Books, Kept
    <2> DEFINE b == RestoredReward(a, w, reported)
    <2>4. /\ HoldingWell(b) /\ DOMAIN b.ledger = DOMAIN a.ledger
          /\ Expected(b, k) = Expected(a, k) /\ Missing(b, k) <= Missing(a, k)
          /\ b.stock[i] >= Expected(a, k) - Missing(a, k)
      BY <2>1, <2>3, RestoredIs
    <2>5. /\ z.stock[i] = b.stock[i] /\ ((k \in DOMAIN z.ledger) <=> (k \in DOMAIN b.ledger))
          /\ Expected(z, k) = Expected(b, k) /\ Missing(z, k) = Missing(b, k)
      BY <2>1, SameBooks
    <2> HIDE DEF b
    <2>6. /\ a.stock[i] \in Nat /\ Expected(a, k) \in Nat /\ Missing(a, k) \in Nat /\ n \in Nat
          /\ b.stock[i] \in Nat /\ Expected(b, k) \in Nat /\ Missing(b, k) \in Nat
      BY <2>1, <2>4, BooksNumbers
    <2>7. k \in DOMAIN z.ledger /\ Expected(z, k) >= n /\ Missing(z, k) + n <= o + Expected(z, k)
          /\ z.stock[i] + o >= n
      BY <2>3, <2>4, <2>5, <2>6
    <2>. QED BY <1>1, <1>2, <1>4, <2>7 DEF Books, Kept
  <1>5. CASE w \in rolled /\ ~(Reward[w].persistent /\ w \in s.persistentKeys)
    <2>1. PICK a : /\ HoldingWell(a) /\ SameItem(x, a, i)
                   /\ SameItem(Granted(a, w, reported), z, i)
      BY <1>2, <1>5
    <2>2. Books(a, w, o, f, s)
      BY <2>1, BooksSame
    <2> DEFINE b == Granted(a, w, reported)
    <2>3. /\ HoldingWell(b) /\ b.stock[i] = a.stock[i] + n /\ k \in DOMAIN b.ledger
          /\ Expected(b, k) = Expected(a, k) + n
          /\ Missing(b, k) = AtLeast0(Expected(a, k) - a.stock[i])
      BY <2>1, GrantedIs
    <2>4. /\ z.stock[i] = b.stock[i] /\ ((k \in DOMAIN z.ledger) <=> (k \in DOMAIN b.ledger))
          /\ Expected(z, k) = Expected(b, k) /\ Missing(z, k) = Missing(b, k)
      BY <2>1, SameBooks
    <2> HIDE DEF b
    <2>5. /\ a.stock[i] \in Nat /\ Expected(a, k) \in Nat
          /\ Missing(a, k) \in Nat /\ Missing(a, k) <= Expected(a, k)
          /\ n \in Nat /\ Native[i] \in Nat
      BY <2>1, BooksNumbers
    <2>6. z.stock[i] + o >= n
      BY <2>3, <2>4, <2>5
    <2>7. CASE Reward[w].persistent
      <3>1. k \in DOMAIN z.ledger /\ Expected(z, k) >= n
            /\ Missing(z, k) + n <= o + Expected(z, k)
        BY <2>3, <2>4, <2>5 DEF AtLeast0
      <3>. QED BY <1>1, <1>2, <1>5, <2>6, <2>7, <3>1 DEF Books, Kept
    <2>8. CASE ~Reward[w].persistent
      <3>1. /\ a.stock[i] + o <= Native[i] + Expected(a, k) /\ o <= Native[i] + Missing(a, k)
            /\ a.stock[i] + Missing(a, k) <= Native[i] + Expected(a, k)
            /\ Expected(a, k) <= n * (f + 0)
        BY <2>2, <2>8 DEF Books, Even, Fair
      <3>2. Even(z, w, o)
        BY <2>3, <2>4, <2>5, <3>1 DEF Even, AtLeast0
      <3>3. Expected(z, k) <= n * (f + 1)
        <4>1. n * (f + 1) = n * f + n /\ n * (f + 0) = n * f /\ n * f \in Nat
          <5> HIDE DEF n
          <5>. QED BY <2>5, OneMore
        <4>. QED BY <2>3, <2>4, <2>5, <3>1, <4>1
      <3>. QED BY <1>1, <1>2, <1>5, <2>8, <3>2, <3>3 DEF Books, Fair
    <2>. QED BY <2>7, <2>8
  <1>. QED BY <1>2, <1>3, <1>4, <1>5

\* What it does when it goes on.
LEMMA ContinuedBooks ==
    ASSUME NEW w \in Rewards, Alone(w), NEW x, HoldingWell(x), NEW o \in Nat, NEW f \in Nat,
           NEW s, s = [version |-> s.version, active |-> s.active, canReroll |-> s.canReroll,
                       keys |-> s.keys, persistentKeys |-> s.persistentKeys],
           Books(x, w, o, f, s), NEW v,
           NEW reported \in BOOLEAN, NEW d, d = Continued(x, s, v, reported)
    PROVE  /\ HoldingWell(d.holding)
           /\ w \notin s.keys => SameItem(x, d.holding, Reward[w].item)
           /\ Books(d.holding, w, o, f, d.record)
           /\ w \in s.keys /\ Reward[w].persistent =>
                d.holding.stock[Reward[w].item] + o >= Reward[w].amount
  <1> DEFINE z == Continued(x, s, v, reported).holding
             i == Reward[w].item
             k == Key(w)
             n == Reward[w].amount
  <1>1. d.holding = z /\ d.record = [s EXCEPT !.version = v]
    BY DEF Continued
  <1>2. d.record.keys = s.keys /\ d.record.persistentKeys = s.persistentKeys
    BY <1>1
  <1>3. /\ HoldingWell(z)
        /\ \/ /\ w \notin s.keys \/ ~Reward[w].persistent
              /\ SameItem(x, z, i)
           \/ /\ w \in s.keys /\ Reward[w].persistent
              /\ \E a : /\ HoldingWell(a) /\ SameItem(x, a, i)
                        /\ SameItem(RestoredReward(a, w, reported), z, i)
    BY ContinuedIs
  <1> HIDE DEF z
  <1>4. CASE (w \notin s.keys \/ ~Reward[w].persistent) /\ SameItem(x, z, i)
    <2>1. Books(z, w, o, f, s)
      BY <1>4, BooksSame
    <2>2. Books(z, w, o, f, d.record)
      BY <1>2, <2>1 DEF Books, Fair, Kept
    <2>. QED BY <1>1, <1>3, <1>4, <2>2
  <1>5. CASE w \in s.keys /\ Reward[w].persistent
    <2>1. PICK a : /\ HoldingWell(a) /\ SameItem(x, a, i)
                   /\ SameItem(RestoredReward(a, w, reported), z, i)
      BY <1>3, <1>5
    <2>2. Books(a, w, o, f, s)
      BY <2>1, BooksSame
    <2>3. /\ k \in DOMAIN a.ledger /\ Expected(a, k) >= n
          /\ Missing(a, k) + n <= o + Expected(a, k)
      BY <1>5, <2>2 DEF Books, Kept
    <2> DEFINE b == RestoredReward(a, w, reported)
    <2>4. /\ HoldingWell(b) /\ DOMAIN b.ledger = DOMAIN a.ledger
          /\ Expected(b, k) = Expected(a, k) /\ Missing(b, k) <= Missing(a, k)
          /\ b.stock[i] >= Expected(a, k) - Missing(a, k)
      BY <2>1, <2>3, RestoredIs
    <2>5. /\ z.stock[i] = b.stock[i] /\ ((k \in DOMAIN z.ledger) <=> (k \in DOMAIN b.ledger))
          /\ Expected(z, k) = Expected(b, k) /\ Missing(z, k) = Missing(b, k)
      BY <2>1, SameBooks
    <2> HIDE DEF b
    <2>6. /\ a.stock[i] \in Nat /\ Expected(a, k) \in Nat /\ Missing(a, k) \in Nat /\ n \in Nat
          /\ b.stock[i] \in Nat /\ Expected(b, k) \in Nat /\ Missing(b, k) \in Nat
      BY <2>1, <2>4, BooksNumbers
    <2>7. k \in DOMAIN z.ledger /\ Expected(z, k) >= n /\ Missing(z, k) + n <= o + Expected(z, k)
          /\ z.stock[i] + o >= n
      BY <2>3, <2>4, <2>5, <2>6
    <2>. QED BY <1>1, <1>2, <1>3, <1>5, <2>7 DEF Books, Kept
  <1>. QED BY <1>3, <1>4, <1>5

----------------------------------------------------------------------------
(* What one rule makes of the actor.                                      *)

\* The record of a rule.
Record == [version : Nat, active : BOOLEAN, canReroll : BOOLEAN,
           keys : SUBSET Rewards, persistentKeys : SUBSET Rewards]

OfRule(r) == {w \in Rewards : Reward[w].rule = r}

\* It has rewards of the rule only, and none at the moment it may be rolled.
RecordOf(r, s) ==
    /\ s \in Record
    /\ ~s.active /\ s.canReroll => s.keys = {}
    /\ s.keys \subseteq OfRule(r) /\ s.persistentKeys \subseteq OfRule(r)

\* A fresh start that was announced and not made yet.
Behind(r) == IF state[r].version \in {0, version[r]} THEN 0 ELSE 1

\* No record is of a version to come, and every version was counted.
Ages(r) == state[r].version <= version[r] /\ version[r] <= 1 + renewed[r]

Activation ==
    /\ TypeOK /\ HoldingWell(Holding)
    /\ \A r \in Rules : RecordOf(r, state[r]) /\ Ages(r)
    /\ \A w \in Rewards : Alone(w) =>
          Books(Holding, w, outside[Reward[w].item],
                renewed[Reward[w].rule] - Behind(Reward[w].rule), state[Reward[w].rule])

\* What one rule q makes of the actor: d has the new holding and the rule's new record.
Gives(q, d, f) ==
    /\ HoldingWell(d.holding) /\ RecordOf(q, d.record)
    /\ \A w \in Rewards : Alone(w) =>
          IF Reward[w].rule = q
          THEN Books(d.holding, w, outside[Reward[w].item], f, d.record)
          ELSE SameItem(Holding, d.holding, Reward[w].item)

LEMMA FreshStarts ==
    ASSUME TypeOK, NEW r \in Rules, Ages(r)
    PROVE  /\ renewed[r] - Behind(r) \in Nat
           /\ (state[r].version \notin {0, version[r]}) => Behind(r) = 1
           /\ ~(state[r].version \notin {0, version[r]}) => Behind(r) = 0
  <1>1. /\ state[r].version \in Nat /\ version[r] \in Nat /\ renewed[r] \in Nat
        /\ state[r].version <= version[r] /\ version[r] <= 1 + renewed[r]
    BY DEF TypeOK, Ages
  <1>. QED BY <1>1 DEF Behind

LEMMA OutsideIs ==
    ASSUME TypeOK, NEW w \in Rewards
    PROVE  outside[Reward[w].item] \in Nat
  BY RewardIs DEF TypeOK

LEMMA StandingGives ==
    ASSUME Activation, NEW q \in Rules, NEW d, d = [holding |-> Holding, record |-> state[q]]
    PROVE  Gives(q, d, renewed[q] - Behind(q))
  BY DEF Activation, Gives, SameItem

LEMMA EndGives ==
    ASSUME Activation, NEW q \in Rules, NEW c, NEW f \in Nat, Gives(q, c, f),
           NEW reported \in BOOLEAN, NEW d, d = Deactivated(c.holding, c.record, reported)
    PROVE  /\ Gives(q, d, f)
           /\ d.record.version = c.record.version /\ ~d.record.active
           /\ \A w \in Rewards : Alone(w) /\ ~Reward[w].persistent /\ w \in c.record.keys =>
                d.holding.stock[Reward[w].item] <= Native[Reward[w].item]
  <1> DEFINE x == c.holding
             s == c.record
             outstanding == \E v \in s.keys : Outstanding(d.holding, v)
  <1>1. HoldingWell(x) /\ RecordOf(q, s) /\ s \in Record
    BY DEF Gives, RecordOf
  <1>2. s = [version |-> s.version, active |-> s.active, canReroll |-> s.canReroll,
             keys |-> s.keys, persistentKeys |-> s.persistentKeys]
    BY <1>1 DEF Record
  <1>3. d.record = [s EXCEPT !.active = FALSE, !.canReroll = ~outstanding,
                             !.keys = IF outstanding THEN @ ELSE {}]
    BY DEF Deactivated
  <1>4. RecordOf(q, d.record) /\ d.record.version = s.version /\ ~d.record.active
    BY <1>1, <1>2, <1>3 DEF RecordOf, Record
  <1>5. HoldingWell(d.holding)
    BY <1>1, EndedWell
  <1>6. ASSUME NEW w \in Rewards, Alone(w)
        PROVE  /\ IF Reward[w].rule = q
                  THEN Books(d.holding, w, outside[Reward[w].item], f, d.record)
                  ELSE SameItem(Holding, d.holding, Reward[w].item)
               /\ ~Reward[w].persistent /\ w \in s.keys =>
                    d.holding.stock[Reward[w].item] <= Native[Reward[w].item]
    <2>1. CASE Reward[w].rule = q
      <3>1. Books(x, w, outside[Reward[w].item], f, s)
        BY <1>6, <2>1 DEF Gives
      <3>2. outside[Reward[w].item] \in Nat
        BY OutsideIs DEF Activation
      <3>3. s.keys \subseteq Rewards
        BY <1>1 DEF RecordOf, OfRule
      <3>4. /\ Books(d.holding, w, outside[Reward[w].item], f, d.record)
            /\ w \in s.keys /\ ~Reward[w].persistent =>
                 d.holding.stock[Reward[w].item] <= Native[Reward[w].item]
        BY <1>1, <1>2, <1>6, <3>1, <3>2, <3>3, EndedBooks
      <3>. QED BY <2>1, <3>4
    <2>2. CASE Reward[w].rule # q
      <3>1. w \notin s.keys
        BY <1>1, <2>2 DEF RecordOf, OfRule
      <3>2. SameItem(Holding, x, Reward[w].item)
        BY <1>6, <2>2 DEF Gives
      <3>3. SameItem(x, d.holding, Reward[w].item)
        BY <1>1, <1>6, <3>1, EndedIs
      <3>4. SameItem(Holding, d.holding, Reward[w].item)
        BY <3>2, <3>3, SameOn
      <3>. QED BY <2>2, <3>1, <3>4
    <2>. QED BY <2>1, <2>2
  <1>. QED BY <1>4, <1>5, <1>6 DEF Gives

LEMMA FreshGives ==
    ASSUME Activation, NEW q \in Rules, NEW c, NEW f \in Nat, Gives(q, c, f),
           NEW d, d.holding = c.holding, d.record = Fresh(c.record)
    PROVE  /\ Gives(q, d, f + 1) /\ d.record.version = c.record.version
           /\ ~d.record.active /\ d.record.canReroll
  <1>1. RecordOf(q, c.record) /\ HoldingWell(c.holding)
    BY DEF Gives
  <1>2. d.record = [version |-> c.record.version, active |-> FALSE, canReroll |-> TRUE,
                    keys |-> {}, persistentKeys |-> {}]
    BY DEF Fresh, NotApplied
  <1>3. RecordOf(q, d.record)
    BY <1>1, <1>2 DEF RecordOf, Record
  <1>4. ASSUME NEW w \in Rewards, NEW o, Books(c.holding, w, o, f, c.record)
        PROVE  Books(d.holding, w, o, f + 1, d.record)
    <2>1. CASE Reward[w].persistent
      BY <1>2, <1>4, <2>1 DEF Books, Kept
    <2>2. CASE ~Reward[w].persistent
      <3> DEFINE n == Reward[w].amount
                 E == Expected(c.holding, Key(w))
      <3>1. n \in Nat /\ E \in Nat
        BY <1>1, BooksNumbers
      <3>2. E <= n * (f + (IF w \in c.record.keys THEN 1 ELSE 0))
        BY <1>4, <2>2 DEF Books, Fair
      <3> HIDE DEF n, E
      <3>3. /\ n * (f + 1) = n * f + n /\ n * (f + 0) = n * f /\ n * f \in Nat
        BY <3>1, OneMore
      <3>4. n * ((f + 1) + 0) = n * (f + 1)
        <4>1. f + 1 \in Nat
          OBVIOUS
        <4>. QED BY <3>1, <4>1, OneMore
      <3>5. E <= n * ((f + 1) + 0)
        BY <3>1, <3>2, <3>3, <3>4
      <3>6. Fair(d.holding, w, f + 1, d.record)
        BY <1>2, <3>5 DEF Fair, E, n
      <3>. QED BY <1>4, <2>2, <3>6 DEF Books, Even
    <2>. QED BY <2>1, <2>2
  <1>5. \A w \in Rewards : Alone(w) =>
          IF Reward[w].rule = q
          THEN Books(d.holding, w, outside[Reward[w].item], f + 1, d.record)
          ELSE SameItem(Holding, d.holding, Reward[w].item)
    BY <1>4 DEF Gives
  <1>6. HoldingWell(d.holding)
    BY <1>1
  <1>7. Gives(q, d, f + 1)
    BY <1>3, <1>5, <1>6 DEF Gives
  <1>. QED BY <1>2, <1>7

\* An activation that applied: it has its version, and its persistent rewards are there.
Begun(q, d, f, v) ==
    /\ Gives(q, d, f) /\ d.record.version = v /\ d.record.active
    /\ \A w \in Rewards : Alone(w) /\ Reward[w].persistent /\ w \in d.record.keys =>
          d.holding.stock[Reward[w].item] + outside[Reward[w].item] >= Reward[w].amount


LEMMA StartGives ==
    ASSUME Activation, NEW q \in Rules, NEW c, NEW f \in Nat, Gives(q, c, f), c.record.keys = {},
           NEW v \in Nat, NEW rolled, rolled \subseteq OfRule(q),
           NEW reported \in BOOLEAN, NEW d, d = Started(c.holding, c.record, v, rolled, reported)
    PROVE  Begun(q, d, f, v)
  <1> DEFINE x == c.holding
             s == c.record
             again == s.persistentKeys \cup {u \in rolled : Reward[u].persistent}
  <1>1. HoldingWell(x) /\ RecordOf(q, s) /\ s \in Record
    BY DEF Gives, RecordOf
  <1>2. d.record = [version |-> v, active |-> TRUE, canReroll |-> TRUE, keys |-> rolled,
                    persistentKeys |-> again]
    BY DEF Started
  <1>3. RecordOf(q, d.record) /\ d.record.version = v /\ d.record.active /\ d.record.keys = rolled
    BY <1>1, <1>2 DEF RecordOf, Record, OfRule
  <1>4. HoldingWell(d.holding)
    BY <1>1, StartedWell
  <1>5. ASSUME NEW w \in Rewards, Alone(w)
        PROVE  /\ IF Reward[w].rule = q
                  THEN Books(d.holding, w, outside[Reward[w].item], f, d.record)
                  ELSE SameItem(Holding, d.holding, Reward[w].item)
               /\ Reward[w].persistent /\ w \in rolled =>
                d.holding.stock[Reward[w].item] + outside[Reward[w].item] >= Reward[w].amount
    <2>1. CASE Reward[w].rule = q
      <3>1. Books(x, w, outside[Reward[w].item], f, s)
        BY <1>5, <2>1 DEF Gives
      <3>2. outside[Reward[w].item] \in Nat
        BY OutsideIs DEF Activation
      <3>3. /\ Books(d.holding, w, outside[Reward[w].item], f, d.record)
            /\ w \in rolled /\ Reward[w].persistent =>
                d.holding.stock[Reward[w].item] + outside[Reward[w].item] >= Reward[w].amount
        BY <1>1, <1>5, <3>1, <3>2, StartedBooks
      <3>. QED BY <2>1, <3>3
    <2>2. CASE Reward[w].rule # q
      <3>1. w \notin rolled
        BY <2>2 DEF OfRule
      <3>2. SameItem(Holding, x, Reward[w].item)
        BY <1>5, <2>2 DEF Gives
      <3>3. SameItem(x, d.holding, Reward[w].item)
        BY <1>1, <1>5, <3>1, StartedIs
      <3>4. SameItem(Holding, d.holding, Reward[w].item)
        BY <3>2, <3>3, SameOn
      <3>. QED BY <2>2, <3>1, <3>4
    <2>. QED BY <2>1, <2>2
  <1>. QED BY <1>3, <1>4, <1>5 DEF Gives, Begun

LEMMA GoOnGives ==
    ASSUME Activation, NEW q \in Rules, NEW c, NEW f \in Nat, Gives(q, c, f), c.record.active,
           NEW v \in Nat, NEW reported \in BOOLEAN,
           NEW d, d = Continued(c.holding, c.record, v, reported)
    PROVE  Begun(q, d, f, v)
  <1> DEFINE x == c.holding
             s == c.record
  <1>1. HoldingWell(x) /\ RecordOf(q, s) /\ s \in Record
    BY DEF Gives, RecordOf
  <1>2. s = [version |-> s.version, active |-> s.active, canReroll |-> s.canReroll,
             keys |-> s.keys, persistentKeys |-> s.persistentKeys]
    BY <1>1 DEF Record
  <1>3. d.record = [s EXCEPT !.version = v]
    BY DEF Continued
  <1>4. RecordOf(q, d.record) /\ d.record.version = v /\ d.record.active /\ d.record.keys = s.keys
    BY <1>1, <1>2, <1>3 DEF RecordOf, Record
  <1>5. HoldingWell(d.holding)
    BY <1>1, ContinuedWell
  <1>6. ASSUME NEW w \in Rewards, Alone(w)
        PROVE  /\ IF Reward[w].rule = q
                  THEN Books(d.holding, w, outside[Reward[w].item], f, d.record)
                  ELSE SameItem(Holding, d.holding, Reward[w].item)
               /\ Reward[w].persistent /\ w \in s.keys =>
                d.holding.stock[Reward[w].item] + outside[Reward[w].item] >= Reward[w].amount
    <2>1. CASE Reward[w].rule = q
      <3>1. Books(x, w, outside[Reward[w].item], f, s)
        BY <1>6, <2>1 DEF Gives
      <3>2. outside[Reward[w].item] \in Nat
        BY OutsideIs DEF Activation
      <3>3. /\ Books(d.holding, w, outside[Reward[w].item], f, d.record)
            /\ w \in s.keys /\ Reward[w].persistent =>
                d.holding.stock[Reward[w].item] + outside[Reward[w].item] >= Reward[w].amount
        BY <1>1, <1>2, <1>6, <3>1, <3>2, ContinuedBooks
      <3>. QED BY <2>1, <3>3
    <2>2. CASE Reward[w].rule # q
      <3>1. w \notin s.keys
        BY <1>1, <2>2 DEF RecordOf, OfRule
      <3>2. SameItem(Holding, x, Reward[w].item)
        BY <1>6, <2>2 DEF Gives
      <3>3. SameItem(x, d.holding, Reward[w].item)
        BY <1>1, <1>6, <3>1, ContinuedIs
      <3>4. SameItem(Holding, d.holding, Reward[w].item)
        BY <3>2, <3>3, SameOn
      <3>. QED BY <2>2, <3>1, <3>4
    <2>. QED BY <2>1, <2>2
  <1>. QED BY <1>4, <1>5, <1>6 DEF Gives, Begun

\* A rule of another version is brought to a fresh start first.
LEMMA RenewedGives ==
    ASSUME Activation, NEW q \in Rules, NEW reported \in BOOLEAN,
           NEW d, d = Renewed(Holding, q, reported)
    PROVE  /\ Gives(q, d, renewed[q])
           /\ \/ d.record = state[q]
              \/ ~d.record.active /\ d.record.canReroll
  <1> DEFINE changed == state[q].version \notin {0, version[q]}
             ended == IF changed /\ state[q].active THEN Deactivated(Holding, state[q], reported)
                      ELSE [holding |-> Holding, record |-> state[q]]
             standing == [holding |-> Holding, record |-> state[q]]
             f == renewed[q] - Behind(q)
  <1>1. d = [ended EXCEPT !.record = IF changed THEN Fresh(ended.record) ELSE ended.record]
    BY DEF Renewed
  <1>2. ended = [holding |-> ended.holding, record |-> ended.record]
    BY DEF Deactivated
  <1>3. f \in Nat /\ (changed => Behind(q) = 1) /\ (~changed => Behind(q) = 0)
    BY FreshStarts DEF Activation
  <1>4. renewed[q] \in Nat
    BY DEF Activation, TypeOK
  <1>5. Gives(q, standing, f)
    BY StandingGives
  <1>6. ~changed => ended = standing
    OBVIOUS
  <1>7. changed /\ ~state[q].active => ended = standing
    OBVIOUS
  <1>8. changed /\ state[q].active => ended = Deactivated(standing.holding, standing.record, reported)
    OBVIOUS
  <1>9. standing.record = state[q]
    OBVIOUS
  <1> HIDE DEF ended, standing, changed, f
  <1>10. Gives(q, ended, f)
    <2>1. changed /\ state[q].active => Gives(q, ended, f)
      BY <1>3, <1>5, <1>8, EndGives
    <2>. QED BY <1>5, <1>6, <1>7, <2>1
  <1>11. CASE changed
    <2>1. d.holding = ended.holding /\ d.record = Fresh(ended.record)
      BY <1>1, <1>2, <1>11
    <2>2. Gives(q, d, f + 1) /\ ~d.record.active /\ d.record.canReroll
      BY <1>3, <1>10, <2>1, FreshGives
    <2>3. f + 1 = renewed[q]
      BY <1>3, <1>4, <1>11 DEF f
    <2>. QED BY <2>2, <2>3
  <1>12. CASE ~changed
    <2>1. d = ended /\ d.record = state[q]
      BY <1>1, <1>2, <1>6, <1>9, <1>12
    <2>2. f = renewed[q]
      BY <1>3, <1>4, <1>12 DEF f
    <2>. QED BY <1>10, <2>1, <2>2
  <1>. QED BY <1>11, <1>12

----------------------------------------------------------------------------
(* The steps keep the books.                                              *)

\* What a step owes the rewards that are alone of their item: TemporaryIsGone and
\* PersistentIsRestored, of one step.
TakesBack ==
    \A w \in Rewards :
        LET r == Reward[w].rule IN
        /\ Alone(w) /\ ~Reward[w].persistent
        /\ state[r].active /\ ~state'[r].active /\ w \in state[r].keys
        => stock'[Reward[w].item] <= Native[Reward[w].item]

Restores ==
    \A w \in Rewards :
        LET r == Reward[w].rule IN
        /\ Alone(w) /\ Reward[w].persistent
        /\ pass'.process # pass.process /\ pass'.applied = r
        /\ state[r].active \/ state[r].canReroll
        /\ state'[r].active /\ w \in state'[r].keys
        => stock'[Reward[w].item] + outside'[Reward[w].item] >= Reward[w].amount

Passes == [invalidate : SUBSET Rules, process : SUBSET Rules, applied : Rules \cup {0}]

LEMMA NoRuleIsZero ==
    ASSUME NEW w \in Rewards
    PROVE  Reward[w].rule # 0 /\ Reward[w].rule \in Rules
  <1>1. Reward[w].rule \in 1..NRules
    BY RewardIs DEF Rules
  <1>2. \A r \in 1..NRules : r # 0
    BY RewardAssumption
  <1>. QED BY <1>1, <1>2 DEF Rules

LEMMA BecomesIs ==
    ASSUME Activation, NEW q \in Rules, NEW d, HoldingWell(d.holding), Becomes(q, d)
    PROVE  /\ state' = [state EXCEPT ![q] = d.record] /\ state'[q] = d.record
           /\ \A r \in Rules \ {q} : state'[r] = state[r]
           /\ Holding' = d.holding /\ ledger' = d.holding.ledger /\ stock' = d.holding.stock
  BY DEF Activation, TypeOK, Becomes, Holding, HoldingWell

\* A step that deals with one rule keeps the invariant.
LEMMA BecomesKeeps ==
    ASSUME Activation, NEW q \in Rules, NEW d, NEW f \in Nat, Gives(q, d, f), Becomes(q, d),
           UNCHANGED <<defined, version, outside>>, d.record.version <= version[q],
           pass' \in Passes, renewed' \in [Rules -> Nat], renewed'[q] >= renewed[q],
           \A r \in Rules \ {q} : renewed'[r] = renewed[r],
           f = renewed'[q] - (IF d.record.version \in {0, version[q]} THEN 0 ELSE 1),
           moves' \in 0..MaxMoves, losses' \in 0..MaxLosses, edits' \in 0..MaxEdits
    PROVE  Activation'
  <1>1. HoldingWell(d.holding) /\ RecordOf(q, d.record)
    BY DEF Gives
  <1>2. /\ state' = [state EXCEPT ![q] = d.record] /\ state'[q] = d.record
        /\ \A r \in Rules \ {q} : state'[r] = state[r]
        /\ Holding' = d.holding /\ ledger' = d.holding.ledger /\ stock' = d.holding.stock
    BY <1>1, BecomesIs
  <1>3. TypeOK'
    <2>1. /\ DOMAIN ledger' \subseteq Keys
          /\ \A k \in DOMAIN ledger' :
                ledger'[k].expected \in Nat /\ ledger'[k].missing \in 0..ledger'[k].expected
          /\ stock' \in [Items -> Nat]
      BY <1>1, <1>2 DEF HoldingWell, Entry
    <2>2. state' \in [Rules -> Record]
      BY <1>1, <1>2 DEF Activation, TypeOK, RecordOf, Record
    <2>. QED BY <2>1, <2>2 DEF Activation, TypeOK, Record, Passes
  <1>4. HoldingWell(Holding)'
    BY <1>1, <1>2 DEF HoldingWell
  <1>5. ASSUME NEW r \in Rules
        PROVE  RecordOf(r, state'[r]) /\ Ages(r)'
    <2>1. CASE r = q
      BY <1>1, <1>2, <2>1 DEF Activation, TypeOK, Ages
    <2>2. CASE r # q
      BY <1>2, <2>2 DEF Activation, Ages
    <2>. QED BY <2>1, <2>2
  <1>6. Behind(q)' = (IF d.record.version \in {0, version[q]} THEN 0 ELSE 1)
    BY <1>2 DEF Behind
  <1>7. \A r \in Rules \ {q} : Behind(r)' = Behind(r)
    BY <1>2 DEF Behind
  <1>8. ASSUME NEW w \in Rewards, Alone(w)
        PROVE  Books(d.holding, w, outside[Reward[w].item],
                     (renewed[Reward[w].rule] - Behind(Reward[w].rule))',
                     state'[Reward[w].rule])
    <2>1. CASE Reward[w].rule = q
      <3>1. (renewed[Reward[w].rule] - Behind(Reward[w].rule))' = f
        BY <1>6, <2>1
      <3>2. Books(d.holding, w, outside[Reward[w].item], f, d.record)
        BY <1>8, <2>1 DEF Gives
      <3>. QED BY <1>2, <2>1, <3>1, <3>2
    <2>2. CASE Reward[w].rule # q
      <3>1. Reward[w].rule \in Rules \ {q}
        BY <2>2, RewardIs
      <3>2. (renewed[Reward[w].rule] - Behind(Reward[w].rule))'
               = renewed[Reward[w].rule] - Behind(Reward[w].rule)
        BY <1>7, <3>1
      <3>3. SameItem(Holding, d.holding, Reward[w].item)
        BY <1>8, <2>2 DEF Gives
      <3>4. Books(Holding, w, outside[Reward[w].item],
                  renewed[Reward[w].rule] - Behind(Reward[w].rule), state[Reward[w].rule])
        BY <1>8 DEF Activation
      <3>5. Books(d.holding, w, outside[Reward[w].item],
                  renewed[Reward[w].rule] - Behind(Reward[w].rule), state[Reward[w].rule])
        BY <3>3, <3>4, BooksSame
      <3>. QED BY <1>2, <3>1, <3>2, <3>5
    <2>. QED BY <2>1, <2>2
  <1>9. \A w \in Rewards : Alone(w) =>
          Books(Holding', w, outside'[Reward[w].item],
                (renewed[Reward[w].rule] - Behind(Reward[w].rule))', state'[Reward[w].rule])
    BY <1>2, <1>8
  <1>. QED BY <1>3, <1>4, <1>5, <1>9 DEF Activation

LEMMA EvaluateKeeps ==
    ASSUME Activation, NEW S \in SUBSET Rules, Evaluate(S)
    PROVE  Activation' /\ TakesBack /\ Restores
  <1>1. /\ UNCHANGED <<defined, version, state, ledger, stock, outside, renewed, moves, losses, edits>>
        /\ pass' = [invalidate |-> Applied \cap (S \cup (Rules \ defined)),
                    process |-> S \cap defined, applied |-> 0]
    BY DEF Evaluate, PassOver, ruleVars, counters
  <1>2. pass' \in Passes /\ pass'.applied = 0
    BY <1>1 DEF Passes, Applied
  <1>3. TypeOK'
    BY <1>1, <1>2 DEF Activation, TypeOK, Passes
  <1>4. Activation'
    BY <1>1, <1>3 DEF Activation, Holding, Behind, Ages
  <1>5. TakesBack
    BY <1>1 DEF TakesBack
  <1>6. Restores
    BY <1>2, NoRuleIsZero DEF Restores
  <1>. QED BY <1>4, <1>5, <1>6

LEMMA InvalidateKeeps ==
    ASSUME Activation, Invalidate
    PROVE  Activation' /\ TakesBack /\ Restores
  <1> DEFINE q == Min(pass.invalidate)
             s == IF q \in defined THEN state[q] ELSE [state[q] EXCEPT !.persistentKeys = {}]
             c == [holding |-> Holding, record |-> s]
             f == renewed[q] - Behind(q)
  <1>1. /\ pass.invalidate # {} /\ pass' = [pass EXCEPT !.invalidate = @ \ {q}]
        /\ UNCHANGED <<defined, version, outside, renewed, moves, losses, edits>>
        /\ \/ UNCHANGED <<state, ledger, stock>>
           \/ /\ s.active
              /\ \E reported \in Reported : Becomes(q, Deactivated(Holding, s, reported))
           \/ ~s.active /\ Becomes(q, c)
    BY DEF Invalidate, ruleVars, counters
  <1>2. q \in Rules
    <2>1. pass.invalidate \subseteq Nat /\ pass.invalidate \subseteq Rules
      BY RewardAssumption DEF Activation, TypeOK, Rules
    <2>2. \E x \in pass.invalidate : \A j \in pass.invalidate : x <= j
      BY <1>1, <2>1, LeastOf
    <2>3. q \in pass.invalidate
      BY <2>2 DEF Min
    <2>. QED BY <2>1, <2>3
  <1> HIDE DEF q
  <1>3. pass' \in Passes /\ pass'.process = pass.process
    BY <1>1 DEF Activation, TypeOK, Passes
  <1>4. Restores
    BY <1>3 DEF Restores
  <1>5. /\ f \in Nat /\ RecordOf(q, state[q]) /\ state[q] \in Record
        /\ state[q].version <= version[q] /\ renewed \in [Rules -> Nat]
        /\ moves \in 0..MaxMoves /\ losses \in 0..MaxLosses /\ edits \in 0..MaxEdits
    BY <1>2, FreshStarts DEF Activation, RecordOf, Ages, TypeOK
  <1>6. /\ s.version = state[q].version /\ s.active = state[q].active /\ s.keys = state[q].keys
        /\ s.persistentKeys \subseteq state[q].persistentKeys /\ RecordOf(q, s)
    BY <1>5 DEF RecordOf, Record
  <1>7. Gives(q, c, f)
    <2> DEFINE d == [holding |-> Holding, record |-> state[q]]
    <2>1. Gives(q, d, f)
      BY <1>2, StandingGives
    <2>2. \A w \in Rewards : \A o : Books(Holding, w, o, f, state[q]) => Books(Holding, w, o, f, s)
      BY <1>6 DEF Books, Kept, Fair
    <2>3. c.holding = Holding /\ c.record = s /\ d.holding = Holding /\ d.record = state[q]
      OBVIOUS
    <2> HIDE DEF c, d, f, s
    <2>. QED BY <1>6, <2>1, <2>2, <2>3 DEF Gives
  <1>8. f = renewed'[q] - (IF s.version \in {0, version[q]} THEN 0 ELSE 1)
    BY <1>1, <1>6 DEF Behind
  <1>9. \A r \in Rules : renewed'[r] = renewed[r]
    BY <1>1
  <1>10. c.holding = Holding /\ c.record = s
    OBVIOUS
  <1>11. CASE UNCHANGED <<state, ledger, stock>>
    <2>1. TypeOK'
      BY <1>1, <1>3, <1>11 DEF Activation, TypeOK, Passes
    <2>2. Activation'
      BY <1>1, <1>11, <2>1 DEF Activation, Holding, Behind, Ages
    <2>3. TakesBack
      BY <1>11 DEF TakesBack
    <2>. QED BY <1>4, <2>2, <2>3
  <1>12. CASE s.active /\ \E reported \in Reported : Becomes(q, Deactivated(Holding, s, reported))
    <2>1. PICK reported \in Reported : Becomes(q, Deactivated(Holding, s, reported))
      BY <1>12
    <2>2. reported \in BOOLEAN
      BY ReportAssumption
    <2> DEFINE d == Deactivated(Holding, s, reported)
    <2>3. d = Deactivated(c.holding, c.record, reported) /\ Becomes(q, d)
      BY <2>1
    <2> HIDE DEF d, c, s, f
    <2>4. /\ Gives(q, d, f) /\ d.record.version = s.version /\ ~d.record.active
          /\ \A w \in Rewards : Alone(w) /\ ~Reward[w].persistent /\ w \in s.keys =>
                d.holding.stock[Reward[w].item] <= Native[Reward[w].item]
      BY <1>2, <1>5, <1>7, <1>10, <2>2, <2>3, EndGives
    <2>5. d.record.version <= version[q] /\ renewed'[q] >= renewed[q]
      BY <1>2, <1>5, <1>6, <1>9, <2>4
    <2>6. f = renewed'[q] - (IF d.record.version \in {0, version[q]} THEN 0 ELSE 1)
      BY <1>8, <2>4
    <2>7. Activation'
      BY <1>1, <1>2, <1>3, <1>5, <1>9, <2>3, <2>4, <2>5, <2>6, BecomesKeeps
    <2>8. /\ state'[q] = d.record /\ stock' = d.holding.stock
          /\ \A r \in Rules \ {q} : state'[r] = state[r]
      BY <1>2, <2>3, <2>4, BecomesIs DEF Gives
    <2>9. TakesBack
      BY <1>6, <2>4, <2>8, NoRuleIsZero DEF TakesBack
    <2>. QED BY <1>4, <2>7, <2>9
  <1>13. CASE ~s.active /\ Becomes(q, c)
    <2> HIDE DEF c, s, f
    <2>1. c.record.version <= version[q] /\ renewed'[q] >= renewed[q]
      BY <1>2, <1>5, <1>6, <1>9, <1>10
    <2>2. f = renewed'[q] - (IF c.record.version \in {0, version[q]} THEN 0 ELSE 1)
      BY <1>8, <1>10
    <2>3. Activation'
      BY <1>1, <1>2, <1>3, <1>5, <1>7, <1>9, <1>13, <2>1, <2>2, BecomesKeeps
    <2>4. /\ state'[q] = s /\ \A r \in Rules \ {q} : state'[r] = state[r]
      BY <1>2, <1>7, <1>10, <1>13, BecomesIs DEF Gives
    <2>5. TakesBack
      BY <1>6, <1>13, <2>4, NoRuleIsZero DEF TakesBack
    <2>. QED BY <1>4, <2>3, <2>5
  <1>. QED BY <1>1, <1>11, <1>12, <1>13

LEMMA ProcessKeeps ==
    ASSUME Activation, NEW q \in Rules, Process(q)
    PROVE  Activation' /\ TakesBack /\ Restores
  <1>1. /\ UNCHANGED <<defined, version, outside, renewed, moves, losses, edits>>
        /\ \/ /\ pass' = [pass EXCEPT !.process = @ \ {q}, !.applied = 0]
              /\ UNCHANGED <<state, ledger, stock>>
           \/ /\ pass' = [pass EXCEPT !.process = @ \ {q}, !.applied = q]
              /\ Apply(q)
    BY DEF Process, ruleVars, counters
  <1>2. /\ renewed[q] \in Nat /\ version[q] \in Nat /\ renewed \in [Rules -> Nat]
        /\ moves \in 0..MaxMoves /\ losses \in 0..MaxLosses /\ edits \in 0..MaxEdits
        /\ pass \in Passes
    BY DEF Activation, TypeOK, Passes
  <1>3. CASE /\ pass' = [pass EXCEPT !.process = @ \ {q}, !.applied = 0]
             /\ UNCHANGED <<state, ledger, stock>>
    <2>1. pass' \in Passes /\ pass'.applied = 0
      BY <1>2, <1>3 DEF Passes
    <2>2. TypeOK'
      BY <1>1, <1>3, <2>1 DEF Activation, TypeOK, Passes
    <2>3. Activation'
      BY <1>1, <1>3, <2>2 DEF Activation, Holding, Behind, Ages
    <2>4. TakesBack
      BY <1>3 DEF TakesBack
    <2>5. Restores
      BY <2>1, NoRuleIsZero DEF Restores
    <2>. QED BY <2>3, <2>4, <2>5
  <1>4. CASE /\ pass' = [pass EXCEPT !.process = @ \ {q}, !.applied = q]
             /\ Apply(q)
    <2>1. pass' \in Passes /\ pass'.applied = q
      BY <1>2, <1>4 DEF Passes
    <2>2. PICK reported \in Reported :
            LET h == Renewed(Holding, q, reported).holding
                s == Renewed(Holding, q, reported).record
            IN \/ /\ ~s.active /\ s.canReroll
                  /\ \E rolled \in SUBSET {w \in Rewards : Reward[w].rule = q} :
                        Becomes(q, Started(h, s, version[q], rolled, reported))
               \/ /\ ~s.active /\ ~s.canReroll
                  /\ Becomes(q, [holding |-> h,
                                 record |-> [s EXCEPT !.active = TRUE, !.version = version[q]]])
               \/ /\ s.active
                  /\ Becomes(q, Continued(h, s, version[q], reported))
      BY <1>4 DEF Apply
    <2> DEFINE c == Renewed(Holding, q, reported)
               s == c.record
    <2>3. reported \in BOOLEAN
      BY ReportAssumption
    <2>4. /\ Gives(q, c, renewed[q])
          /\ s = state[q] \/ (~s.active /\ s.canReroll)
      BY <2>3, RenewedGives
    <2>5. HoldingWell(c.holding) /\ RecordOf(q, s) /\ s \in Record
      BY <2>4 DEF Gives, RecordOf
    <2>6. SUFFICES ASSUME NEW d, Becomes(q, d), Gives(q, d, renewed[q]),
                          d.record.version = version[q], d.record.active,
                          state[q].active \/ state[q].canReroll =>
                            \A w \in Rewards :
                               Alone(w) /\ Reward[w].persistent /\ w \in d.record.keys =>
                                  d.holding.stock[Reward[w].item] + outside[Reward[w].item]
                                     >= Reward[w].amount
                   PROVE  Activation' /\ TakesBack /\ Restores
      <3> HIDE DEF c
      <3>1. \/ /\ ~s.active /\ s.canReroll
               /\ \E rolled \in SUBSET OfRule(q) :
                        Becomes(q, Started(c.holding, s, version[q], rolled, reported))
            \/ /\ ~s.active /\ ~s.canReroll
               /\ Becomes(q, [holding |-> c.holding,
                              record |-> [s EXCEPT !.active = TRUE, !.version = version[q]]])
            \/ /\ s.active
               /\ Becomes(q, Continued(c.holding, s, version[q], reported))
        BY <2>2 DEF c, OfRule
      <3>2. CASE /\ ~s.active /\ s.canReroll
                 /\ \E rolled \in SUBSET OfRule(q) :
                        Becomes(q, Started(c.holding, s, version[q], rolled, reported))
        <4>1. PICK rolled \in SUBSET OfRule(q) :
                 Becomes(q, Started(c.holding, s, version[q], rolled, reported))
          BY <3>2
        <4>2. c.record.keys = {} /\ rolled \subseteq OfRule(q)
          BY <2>5, <3>2 DEF RecordOf
        <4> DEFINE d == Started(c.holding, c.record, version[q], rolled, reported)
        <4>3. Becomes(q, d)
          BY <4>1
        <4>4. d = Started(c.holding, c.record, version[q], rolled, reported)
          OBVIOUS
        <4> HIDE DEF d
        <4>5. /\ Gives(q, d, renewed[q]) /\ d.record.version = version[q] /\ d.record.active
              /\ \A w \in Rewards : Alone(w) /\ Reward[w].persistent /\ w \in d.record.keys =>
                   d.holding.stock[Reward[w].item] + outside[Reward[w].item] >= Reward[w].amount
          <5> DEFINE f == renewed[q]
                     v == version[q]
          <5>1. /\ Gives(q, c, f) /\ f \in Nat /\ v \in Nat
                /\ d = Started(c.holding, c.record, v, rolled, reported)
            BY <1>2, <2>4, <4>4
          <5> HIDE DEF f, v
          <5> HIDE DEF c
          <5>2. Begun(q, d, f, v)
            BY <2>3, <4>2, <5>1, StartGives
          <5>. QED BY <5>2 DEF f, v, Begun
        <4>. QED BY <2>6, <4>3, <4>5
      <3>3. CASE /\ ~s.active /\ ~s.canReroll
                 /\ Becomes(q, [holding |-> c.holding,
                                record |-> [s EXCEPT !.active = TRUE, !.version = version[q]]])
        <4> DEFINE new == [s EXCEPT !.active = TRUE, !.version = version[q]]
                   d == [holding |-> c.holding, record |-> new]
        <4>1. /\ RecordOf(q, new) /\ new.version = version[q] /\ new.active
              /\ new.keys = s.keys /\ new.persistentKeys = s.persistentKeys
          BY <1>2, <2>5 DEF RecordOf, Record
        <4>2. d.holding = c.holding /\ d.record = new /\ Becomes(q, d)
          BY <3>3
        <4> HIDE DEF new, d
        <4>3. \A w \in Rewards : \A o : Books(c.holding, w, o, renewed[q], s) =>
                                    Books(d.holding, w, o, renewed[q], new)
          BY <4>1, <4>2 DEF Books, Kept, Fair, Even
        <4>4. Gives(q, d, renewed[q])
          <5>1. HoldingWell(d.holding) /\ RecordOf(q, d.record)
            BY <2>5, <4>1, <4>2
          <5>2. ASSUME NEW w \in Rewards, Alone(w)
                PROVE  IF Reward[w].rule = q
                       THEN Books(d.holding, w, outside[Reward[w].item], renewed[q], d.record)
                       ELSE SameItem(Holding, d.holding, Reward[w].item)
            BY <2>4, <4>2, <4>3, <5>2 DEF Gives
          <5>. QED BY <5>1, <5>2 DEF Gives
        <4>5. ~(state[q].active \/ state[q].canReroll)
          BY <2>4, <3>3
        <4>. QED BY <2>6, <4>1, <4>2, <4>4, <4>5
      <3>4. CASE s.active /\ Becomes(q, Continued(c.holding, s, version[q], reported))
        <4> DEFINE d == Continued(c.holding, c.record, version[q], reported)
        <4>1. Becomes(q, d)
          BY <3>4
        <4>2. d = Continued(c.holding, c.record, version[q], reported)
          OBVIOUS
        <4> HIDE DEF d
        <4>3. /\ Gives(q, d, renewed[q]) /\ d.record.version = version[q] /\ d.record.active
              /\ \A w \in Rewards : Alone(w) /\ Reward[w].persistent /\ w \in d.record.keys =>
                   d.holding.stock[Reward[w].item] + outside[Reward[w].item] >= Reward[w].amount
          <5>1. Begun(q, d, renewed[q], version[q])
            BY <1>2, <2>3, <2>4, <3>4, <4>2, GoOnGives
          <5>. QED BY <5>1 DEF Begun
        <4>. QED BY <2>6, <4>1, <4>3
      <3>. QED BY <3>1, <3>2, <3>3, <3>4
    <2> HIDE DEF c
    <2>7. /\ d.record.version <= version[q] /\ renewed'[q] >= renewed[q]
          /\ renewed[q] = renewed'[q] - (IF d.record.version \in {0, version[q]} THEN 0 ELSE 1)
          /\ renewed' \in [Rules -> Nat] /\ \A r \in Rules \ {q} : renewed'[r] = renewed[r]
          /\ moves' \in 0..MaxMoves /\ losses' \in 0..MaxLosses /\ edits' \in 0..MaxEdits
      BY <1>1, <1>2, <2>6
    <2>8. Activation'
      BY <1>1, <1>2, <2>1, <2>6, <2>7, BecomesKeeps
    <2>9. /\ state'[q] = d.record /\ stock' = d.holding.stock
          /\ \A r \in Rules \ {q} : state'[r] = state[r]
      BY <2>6, BecomesIs DEF Gives
    <2>10. TakesBack
      BY <2>6, <2>9, NoRuleIsZero DEF TakesBack
    <2>11. Restores
      BY <1>1, <2>1, <2>6, <2>9, NoRuleIsZero DEF Restores
    <2>. QED BY <2>8, <2>10, <2>11
  <1>. QED BY <1>1, <1>3, <1>4

LEMMA NewVersionKeeps ==
    ASSUME Activation, NEW q \in Rules, NewVersion(q)
    PROVE  Activation' /\ TakesBack /\ Restores
  <1>1. /\ UNCHANGED <<defined, state, ledger, stock, outside, pass, moves, losses>>
        /\ version' = [version EXCEPT ![q] = @ + 1] /\ renewed' = [renewed EXCEPT ![q] = @ + 1]
        /\ edits < MaxEdits /\ edits' = edits + 1
    BY DEF NewVersion, Edit
  <1>2. /\ version \in [Rules -> Nat \ {0}] /\ renewed \in [Rules -> Nat]
        /\ state[q].version \in Nat /\ edits \in 0..MaxEdits /\ MaxEdits \in Nat
        /\ state[q].version <= version[q] /\ version[q] <= 1 + renewed[q]
    BY ActivationBoundAssumption DEF Activation, TypeOK, Ages
  <1>3. /\ version' \in [Rules -> Nat \ {0}] /\ renewed' \in [Rules -> Nat]
        /\ version'[q] = version[q] + 1 /\ renewed'[q] = renewed[q] + 1
        /\ \A r \in Rules \ {q} : version'[r] = version[r] /\ renewed'[r] = renewed[r]
    BY <1>1, <1>2
  <1>4. TypeOK'
    BY <1>1, <1>2, <1>3 DEF Activation, TypeOK
  <1>5. \A r \in Rules : Ages(r)'
    BY <1>1, <1>2, <1>3 DEF Activation, Ages
  <1>6. \A r \in Rules \ {q} : (renewed[r] - Behind(r))' = renewed[r] - Behind(r)
    BY <1>1, <1>3 DEF Behind
  <1>7. /\ renewed[q] - Behind(q) \in Nat
        /\ (renewed[q] - Behind(q))' \in {renewed[q] - Behind(q), (renewed[q] - Behind(q)) + 1}
    <2>1. renewed[q] - Behind(q) \in Nat
      BY FreshStarts DEF Activation
    <2>. QED BY <1>1, <1>2, <1>3, <2>1 DEF Behind
  <1>8. ASSUME NEW w \in Rewards, Alone(w)
        PROVE  Books(Holding, w, outside[Reward[w].item],
                     (renewed[Reward[w].rule] - Behind(Reward[w].rule))', state[Reward[w].rule])
    <2> DEFINE f == renewed[Reward[w].rule] - Behind(Reward[w].rule)
    <2>1. Books(Holding, w, outside[Reward[w].item], f, state[Reward[w].rule])
      BY <1>8 DEF Activation
    <2>2. CASE Reward[w].rule # q
      BY <1>6, <2>1, <2>2, RewardIs
    <2>3. CASE Reward[w].rule = q
      <3>1. f \in Nat /\ f' \in {f, f + 1}
        BY <1>7, <2>3
      <3> HIDE DEF f
      <3>2. Books(Holding, w, outside[Reward[w].item], f + 1, state[q])
        <4>1. CASE Reward[w].persistent
          BY <2>1, <2>3, <4>1 DEF Books
        <4>2. CASE ~Reward[w].persistent
          <5> DEFINE n == Reward[w].amount
                     e == IF w \in state[q].keys THEN 1 ELSE 0
          <5>1. n \in Nat /\ Expected(Holding, Key(w)) \in Nat /\ e \in Nat
            BY BooksNumbers DEF Activation
          <5>2. Expected(Holding, Key(w)) <= n * (f + e)
            BY <2>1, <2>3, <4>2 DEF Books, Fair
          <5>3. (f + 1) + e = (f + e) + 1 /\ f + e \in Nat
            BY <3>1, <5>1
          <5>4. n * ((f + e) + 1) = n * (f + e) + n /\ n * (f + e) \in Nat
            <6> HIDE DEF n, e
            <6>. QED BY <5>1, <5>3, OneMore
          <5>5. Expected(Holding, Key(w)) <= n * ((f + 1) + e)
            <6> HIDE DEF n, e
            <6>. QED BY <5>1, <5>2, <5>3, <5>4
          <5>6. Fair(Holding, w, f + 1, state[q])
            BY <5>5 DEF Fair
          <5>. QED BY <2>1, <2>3, <4>2, <5>6 DEF Books
        <4>. QED BY <4>1, <4>2
      <3>3. Books(Holding, w, outside[Reward[w].item], f', state[Reward[w].rule])
        BY <2>1, <2>3, <3>1, <3>2
      <3>. QED BY <3>3 DEF f
    <2>. QED BY <2>2, <2>3
  <1>9. Holding' = Holding
    BY <1>1 DEF Holding
  <1>10. \A w \in Rewards : Alone(w) =>
           Books(Holding', w, outside'[Reward[w].item],
                 (renewed[Reward[w].rule] - Behind(Reward[w].rule))', state'[Reward[w].rule])
    BY <1>1, <1>8, <1>9
  <1>11. Activation'
    BY <1>1, <1>4, <1>5, <1>9, <1>10 DEF Activation
  <1>12. TakesBack /\ Restores
    BY <1>1 DEF TakesBack, Restores
  <1>. QED BY <1>11, <1>12

LEMMA DeleteKeeps ==
    ASSUME Activation, NEW q \in Rules, Delete(q)
    PROVE  Activation' /\ TakesBack /\ Restores
  <1>1. /\ UNCHANGED <<version, state, ledger, stock, outside, pass, renewed, moves, losses>>
        /\ defined' = defined \ {q} /\ edits < MaxEdits /\ edits' = edits + 1
    BY DEF Delete, Edit
  <1>2. TypeOK'
    BY <1>1, ActivationBoundAssumption DEF Activation, TypeOK
  <1>3. Activation'
    BY <1>1, <1>2 DEF Activation, Holding, Behind, Ages
  <1>4. TakesBack /\ Restores
    BY <1>1 DEF TakesBack, Restores
  <1>. QED BY <1>3, <1>4

LEMMA ResetKeeps ==
    ASSUME Activation, NEW q \in Rules, Reset(q)
    PROVE  Activation' /\ TakesBack /\ Restores
  <1> DEFINE standing == [holding |-> Holding, record |-> state[q]]
             f == renewed[q] - Behind(q)
  <1>1. PICK reported \in Reported :
          LET ended == IF state[q].active THEN Deactivated(Holding, state[q], reported)
                       ELSE standing
          IN Becomes(q, [holding |-> ended.holding, record |-> Fresh(ended.record)])
    BY DEF Reset
  <1> DEFINE ended == IF state[q].active THEN Deactivated(Holding, state[q], reported)
                      ELSE standing
             d == [holding |-> ended.holding, record |-> Fresh(ended.record)]
  <1>2. /\ UNCHANGED <<defined, version, outside, moves, losses>>
        /\ renewed' = [renewed EXCEPT ![q] = @ + 1]
        /\ edits < MaxEdits /\ edits' = edits + 1
        /\ pass' = [invalidate |-> Applied \cap (Rules \cup (Rules \ defined)),
                    process |-> Rules \cap defined, applied |-> 0]
    BY DEF Reset, Edit, PassOver, ruleVars
  <1>3. /\ pass' \in Passes /\ pass'.applied = 0
        /\ renewed \in [Rules -> Nat] /\ renewed' \in [Rules -> Nat]
        /\ renewed[q] \in Nat /\ renewed'[q] = renewed[q] + 1
        /\ \A r \in Rules \ {q} : renewed'[r] = renewed[r]
        /\ moves' \in 0..MaxMoves /\ losses' \in 0..MaxLosses /\ edits' \in 0..MaxEdits
    BY <1>2, ActivationBoundAssumption DEF Activation, TypeOK, Passes, Applied
  <1>4. reported \in BOOLEAN
    BY ReportAssumption
  <1>5. f \in Nat /\ state[q].version <= version[q] /\ version[q] \in Nat /\ Behind(q) \in {0, 1}
    BY FreshStarts DEF Activation, Ages, TypeOK, Behind
  <1>6. Gives(q, standing, f)
    BY StandingGives
  <1>7. /\ state[q].active => ended = Deactivated(standing.holding, standing.record, reported)
        /\ ~state[q].active => ended = standing
        /\ standing.record = state[q]
    OBVIOUS
  <1>8. d.holding = ended.holding /\ d.record = Fresh(ended.record) /\ Becomes(q, d)
    BY <1>1
  <1> HIDE DEF d, ended, standing
  <1>9. /\ Gives(q, ended, f) /\ ended.record.version = state[q].version
        /\ state[q].active =>
             \A w \in Rewards : Alone(w) /\ ~Reward[w].persistent /\ w \in state[q].keys =>
                ended.holding.stock[Reward[w].item] <= Native[Reward[w].item]
    <2> HIDE DEF f
    <2>1. CASE state[q].active
      BY <1>4, <1>5, <1>6, <1>7, <2>1, EndGives
    <2>2. CASE ~state[q].active
      BY <1>6, <1>7, <2>2
    <2>. QED BY <2>1, <2>2
  <1>10. Gives(q, d, f + 1) /\ d.record.version = state[q].version /\ ~d.record.active
    <2> HIDE DEF f
    <2>. QED BY <1>5, <1>8, <1>9, FreshGives
  <1>11. f + 1 = renewed'[q] - (IF d.record.version \in {0, version[q]} THEN 0 ELSE 1)
    BY <1>3, <1>10 DEF Behind
  <1>12. f + 1 \in Nat /\ d.record.version <= version[q] /\ renewed'[q] >= renewed[q]
    BY <1>3, <1>5, <1>10
  <1>13. Activation'
    <2> DEFINE e == f + 1
    <2>1. /\ e \in Nat /\ Gives(q, d, e)
          /\ e = renewed'[q] - (IF d.record.version \in {0, version[q]} THEN 0 ELSE 1)
      BY <1>10, <1>11, <1>12
    <2> HIDE DEF e
    <2>. QED BY <1>2, <1>3, <1>8, <1>12, <2>1, BecomesKeeps
  <1>14. /\ state'[q] = d.record /\ stock' = d.holding.stock
         /\ \A r \in Rules \ {q} : state'[r] = state[r]
    BY <1>8, <1>10, BecomesIs DEF Gives
  <1>15. TakesBack
    BY <1>8, <1>9, <1>14, NoRuleIsZero DEF TakesBack
  <1>16. Restores
    BY <1>3, NoRuleIsZero DEF Restores
  <1>. QED BY <1>13, <1>15, <1>16

\* The player takes a copy, or one vanishes or comes back: only the books of its item
\* change, and they stay right.
LEMMA ItemKeeps ==
    ASSUME Activation, NEW i \in Items, NEW g, HoldingWell(g), Others(Holding, g, i),
           Holding' = g, ledger' = g.ledger, stock' = g.stock,
           outside' \in [Items -> Nat], \A j \in Items \ {i} : outside'[j] = outside[j],
           \A w \in Rewards : Alone(w) /\ Reward[w].item = i =>
              \A f, s : Books(Holding, w, outside[i], f, s) => Books(g, w, outside'[i], f, s),
           UNCHANGED <<defined, version, state, pass, renewed>>,
           moves' \in 0..MaxMoves, losses' \in 0..MaxLosses, edits' \in 0..MaxEdits
    PROVE  Activation' /\ TakesBack /\ Restores
  <1>1. TypeOK'
    <2>1. /\ DOMAIN ledger' \subseteq Keys
          /\ \A k \in DOMAIN ledger' :
                ledger'[k].expected \in Nat /\ ledger'[k].missing \in 0..ledger'[k].expected
          /\ stock' \in [Items -> Nat]
      BY DEF HoldingWell, Entry
    <2>. QED BY <2>1 DEF Activation, TypeOK
  <1>2. HoldingWell(Holding)'
    BY DEF HoldingWell
  <1>3. \A r \in Rules : RecordOf(r, state'[r]) /\ Ages(r)' /\ Behind(r)' = Behind(r)
    BY DEF Activation, Ages, Behind
  <1>4. ASSUME NEW w \in Rewards, Alone(w)
        PROVE  Books(g, w, outside'[Reward[w].item],
                     (renewed[Reward[w].rule] - Behind(Reward[w].rule))', state'[Reward[w].rule])
    <2> DEFINE r == Reward[w].rule
               f == renewed[r] - Behind(r)
    <2>1. Books(Holding, w, outside[Reward[w].item], f, state[r])
      BY <1>4 DEF Activation
    <2>2. r \in Rules /\ Reward[w].item \in Items
      BY RewardIs
    <2>3. (renewed[r] - Behind(r))' = f
      BY <1>3, <2>2
    <2> HIDE DEF f
    <2>4. Books(g, w, outside'[Reward[w].item], f, state[r])
      <3>1. CASE Reward[w].item = i
        BY <1>4, <2>1, <3>1
      <3>2. CASE Reward[w].item # i
        <4>1. SameItem(Holding, g, Reward[w].item)
          BY <2>2, <3>2 DEF Others
        <4>2. Books(g, w, outside[Reward[w].item], f, state[r])
          BY <2>1, <4>1, BooksSame
        <4>. QED BY <2>2, <3>2, <4>2
      <3>. QED BY <3>1, <3>2
    <2>. QED BY <2>3, <2>4
  <1>5. \A w \in Rewards : Alone(w) =>
           Books(Holding', w, outside'[Reward[w].item],
                 (renewed[Reward[w].rule] - Behind(Reward[w].rule))', state'[Reward[w].rule])
    BY <1>4
  <1>6. Activation'
    BY <1>1, <1>2, <1>3, <1>5 DEF Activation
  <1>7. TakesBack /\ Restores
    BY DEF TakesBack, Restores
  <1>. QED BY <1>6, <1>7

LEMMA TakeKeeps ==
    ASSUME Activation, NEW i \in Items, Take(i)
    PROVE  Activation' /\ TakesBack /\ Restores
  <1> DEFINE g == TakeOff(Holding, i, 1, TRUE)
  <1>1. /\ moves < MaxMoves /\ moves' = moves + 1 /\ stock[i] > 0
        /\ outside' = [outside EXCEPT ![i] = @ + 1] /\ ledger' = g.ledger /\ stock' = g.stock
        /\ UNCHANGED <<defined, version, state, pass, renewed, losses, edits>>
    BY DEF Take, ruleVars
  <1>2. /\ HoldingWell(Holding) /\ Holding.stock = stock /\ stock[i] \in Nat
        /\ outside \in [Items -> Nat] /\ outside[i] \in Nat
        /\ moves' \in 0..MaxMoves /\ losses' \in 0..MaxLosses /\ edits' \in 0..MaxEdits
    BY <1>1, ActivationBoundAssumption DEF Activation, TypeOK, Holding
  <1>3. /\ HoldingWell(g) /\ Others(Holding, g, i) /\ g.stock[i] = stock[i] - 1
        /\ DOMAIN g.ledger = DOMAIN Holding.ledger
        /\ \A k \in Keys : k.item = i =>
              /\ Expected(g, k) = Expected(Holding, k)
              /\ OnlyEntry(Holding, k) /\ ~Before(k, k) =>
                   Missing(g, k) = Missing(Holding, k)
                                   + Less(Expected(Holding, k) - Missing(Holding, k), 1)
    <2> DEFINE n == 1
               yes == TRUE
    <2>1. n \in 0..Holding.stock[i] /\ yes \in BOOLEAN /\ g = TakeOff(Holding, i, n, yes)
      BY <1>1, <1>2
    <2>2. n = 1 /\ yes
      OBVIOUS
    <2> HIDE DEF n, yes, g
    <2>3. /\ HoldingWell(g) /\ Others(Holding, g, i) /\ g.stock[i] = Holding.stock[i] - n
          /\ DOMAIN g.ledger = DOMAIN Holding.ledger
          /\ \A k \in Keys : k.item = i =>
                /\ Expected(g, k) = Expected(Holding, k)
                /\ OnlyEntry(Holding, k) /\ ~Before(k, k) =>
                     Missing(g, k) = IF yes THEN Missing(Holding, k)
                                             + Less(Expected(Holding, k) - Missing(Holding, k), n)
                                     ELSE Missing(Holding, k)
      BY <1>2, <2>1, TakeOffIs
    <2>. QED BY <1>2, <2>2, <2>3
  <1> HIDE DEF g
  <1>4. Holding' = g
    BY <1>1, <1>3 DEF Holding, HoldingWell
  <1>5. ASSUME NEW w \in Rewards, Alone(w), Reward[w].item = i, NEW f, NEW s,
               Books(Holding, w, outside[i], f, s)
        PROVE  Books(g, w, outside'[i], f, s)
    <2> DEFINE k == Key(w)
    <2>1. /\ Expected(g, k) = Expected(Holding, k)
          /\ Missing(g, k) = Missing(Holding, k) + Less(Expected(Holding, k) - Missing(Holding, k), 1)
      BY <1>2, <1>3, <1>5, AloneIsOnly, RewardIs
    <2>2. /\ Expected(Holding, k) \in Nat /\ Missing(Holding, k) \in Nat
          /\ Missing(Holding, k) <= Expected(Holding, k)
          /\ Reward[w].amount \in Nat /\ Native[i] \in Nat
      BY <1>2, <1>5, BooksNumbers
    <2>3. outside'[i] = outside[i] + 1
      BY <1>1, <1>2
    <2>4. CASE Reward[w].persistent
      BY <1>2, <1>3, <1>5, <2>1, <2>2, <2>3, <2>4 DEF Books, Kept, Less
    <2>5. CASE ~Reward[w].persistent
      <3>1. Even(Holding, w, outside[i]) /\ Fair(Holding, w, f, s)
        BY <1>5, <2>5 DEF Books
      <3>2. Even(g, w, outside'[i])
        BY <1>1, <1>2, <1>3, <1>5, <2>1, <2>2, <2>3, <3>1 DEF Even, Less
      <3>3. Fair(g, w, f, s)
        BY <2>1, <3>1 DEF Fair
      <3>. QED BY <2>5, <3>2, <3>3 DEF Books
    <2>. QED BY <2>4, <2>5
  <1>6. outside' \in [Items -> Nat] /\ \A j \in Items \ {i} : outside'[j] = outside[j]
    BY <1>1, <1>2
  <1>. QED BY <1>1, <1>2, <1>3, <1>4, <1>5, <1>6, ItemKeeps

LEMMA ReturnKeeps ==
    ASSUME Activation, NEW i \in Items, Return(i)
    PROVE  Activation' /\ TakesBack /\ Restores
  <1> DEFINE g == PutOn(Holding, i, 1, TRUE)
  <1>1. /\ moves < MaxMoves /\ moves' = moves + 1 /\ outside[i] > 0
        /\ outside' = [outside EXCEPT ![i] = @ - 1] /\ ledger' = g.ledger /\ stock' = g.stock
        /\ UNCHANGED <<defined, version, state, pass, renewed, losses, edits>>
    BY DEF Return, ruleVars
  <1>2. /\ HoldingWell(Holding) /\ Holding.stock = stock /\ stock[i] \in Nat
        /\ outside \in [Items -> Nat] /\ outside[i] \in Nat
        /\ moves' \in 0..MaxMoves /\ losses' \in 0..MaxLosses /\ edits' \in 0..MaxEdits
    BY <1>1, ActivationBoundAssumption DEF Activation, TypeOK, Holding
  <1>3. /\ HoldingWell(g) /\ Others(Holding, g, i) /\ g.stock[i] = stock[i] + 1
        /\ DOMAIN g.ledger = DOMAIN Holding.ledger
        /\ \A k \in Keys : k.item = i =>
              /\ Expected(g, k) = Expected(Holding, k)
              /\ OnlyEntry(Holding, k) /\ ~Before(k, k) =>
                   Missing(g, k) = Missing(Holding, k) - Less(Missing(Holding, k), 1)
    <2>1. PICK n \in Nat, b \in BOOLEAN : n = 1 /\ b
      OBVIOUS
    <2>2. g = PutOn(Holding, i, n, b)
      BY <2>1
    <2> HIDE DEF g
    <2>3. /\ HoldingWell(g) /\ Others(Holding, g, i) /\ g.stock[i] = Holding.stock[i] + n
          /\ DOMAIN g.ledger = DOMAIN Holding.ledger
          /\ \A k \in Keys : k.item = i =>
                /\ Expected(g, k) = Expected(Holding, k)
                /\ OnlyEntry(Holding, k) /\ ~Before(k, k) =>
                     Missing(g, k) = IF b THEN Missing(Holding, k) - Less(Missing(Holding, k), n)
                                     ELSE Missing(Holding, k)
      BY <1>2, <2>2, PutOnIs
    <2>. QED BY <1>2, <2>1, <2>3
  <1> HIDE DEF g
  <1>4. Holding' = g
    BY <1>1, <1>3 DEF Holding, HoldingWell
  <1>5. ASSUME NEW w \in Rewards, Alone(w), Reward[w].item = i, NEW f, NEW s,
               Books(Holding, w, outside[i], f, s)
        PROVE  Books(g, w, outside'[i], f, s)
    <2> DEFINE k == Key(w)
    <2>1. /\ Expected(g, k) = Expected(Holding, k)
          /\ Missing(g, k) = Missing(Holding, k) - Less(Missing(Holding, k), 1)
      BY <1>2, <1>3, <1>5, AloneIsOnly, RewardIs
    <2>2. /\ Expected(Holding, k) \in Nat /\ Missing(Holding, k) \in Nat
          /\ Missing(Holding, k) <= Expected(Holding, k)
          /\ Reward[w].amount \in Nat /\ Native[i] \in Nat
      BY <1>2, <1>5, BooksNumbers
    <2>3. outside'[i] = outside[i] - 1
      BY <1>1, <1>2
    <2>4. CASE Reward[w].persistent
      BY <1>1, <1>2, <1>3, <1>5, <2>1, <2>2, <2>3, <2>4 DEF Books, Kept, Less
    <2>5. CASE ~Reward[w].persistent
      <3>1. Even(Holding, w, outside[i]) /\ Fair(Holding, w, f, s)
        BY <1>5, <2>5 DEF Books
      <3>2. Even(g, w, outside'[i])
        BY <1>1, <1>2, <1>3, <1>5, <2>1, <2>2, <2>3, <3>1 DEF Even, Less
      <3>3. Fair(g, w, f, s)
        BY <2>1, <3>1 DEF Fair
      <3>. QED BY <2>5, <3>2, <3>3 DEF Books
    <2>. QED BY <2>4, <2>5
  <1>6. outside' \in [Items -> Nat] /\ \A j \in Items \ {i} : outside'[j] = outside[j]
    BY <1>1, <1>2
  <1>. QED BY <1>1, <1>2, <1>3, <1>4, <1>5, <1>6, ItemKeeps

LEMMA LoseKeeps ==
    ASSUME Activation, NEW i \in Items, Lose(i)
    PROVE  Activation' /\ TakesBack /\ Restores
  <1> DEFINE g == [ledger |-> ledger, stock |-> stock']
  <1>1. /\ losses < MaxLosses /\ losses' = losses + 1 /\ stock[i] > 0
        /\ stock' = [stock EXCEPT ![i] = @ - 1]
        /\ UNCHANGED <<defined, version, state, ledger, outside, pass, renewed, moves, edits>>
    BY DEF Lose, ruleVars
  <1>2. /\ HoldingWell(Holding) /\ Holding.stock = stock /\ Holding.ledger = ledger
        /\ stock \in [Items -> Nat] /\ stock[i] \in Nat
        /\ outside \in [Items -> Nat] /\ outside[i] \in Nat
        /\ moves' \in 0..MaxMoves /\ losses' \in 0..MaxLosses /\ edits' \in 0..MaxEdits
    BY <1>1, ActivationBoundAssumption DEF Activation, TypeOK, Holding
  <1>3. g.ledger = ledger /\ g.stock = stock' /\ g = [ledger |-> g.ledger, stock |-> g.stock]
    OBVIOUS
  <1>4. Holding' = g
    BY <1>1 DEF Holding
  <1> HIDE DEF g
  <1>5. /\ stock' \in [Items -> Nat] /\ stock'[i] = stock[i] - 1
        /\ \A j \in Items \ {i} : stock'[j] = stock[j]
    BY <1>1, <1>2
  <1>6. HoldingWell(g) /\ Others(Holding, g, i)
    BY <1>2, <1>3, <1>5 DEF HoldingWell, Others, SameItem
  <1>7. \A k : Expected(g, k) = Expected(Holding, k) /\ Missing(g, k) = Missing(Holding, k)
    BY <1>2, <1>3 DEF Expected, Missing
  <1>8. ASSUME NEW w \in Rewards, Reward[w].item = i, NEW f, NEW s,
               Books(Holding, w, outside[i], f, s)
        PROVE  Books(g, w, outside'[i], f, s)
    <2>1. /\ Expected(Holding, Key(w)) \in Nat /\ Missing(Holding, Key(w)) \in Nat
          /\ Native[i] \in Nat
      BY <1>2, <1>8, BooksNumbers
    <2>2. CASE Reward[w].persistent
      BY <1>1, <1>2, <1>3, <1>7, <1>8, <2>2 DEF Books, Kept
    <2>3. CASE ~Reward[w].persistent
      <3>1. Even(Holding, w, outside[i]) /\ Fair(Holding, w, f, s)
        BY <1>8, <2>3 DEF Books
      <3>2. Even(g, w, outside'[i])
        BY <1>1, <1>2, <1>3, <1>5, <1>7, <1>8, <2>1, <3>1 DEF Even
      <3>3. Fair(g, w, f, s)
        BY <1>7, <3>1 DEF Fair
      <3>. QED BY <2>3, <3>2, <3>3 DEF Books
    <2>. QED BY <2>2, <2>3
  <1>. QED BY <1>1, <1>2, <1>3, <1>4, <1>6, <1>8, ItemKeeps

LEMMA ActivationStep ==
    ASSUME Activation, [Next]_vars
    PROVE  Activation' /\ TakesBack /\ Restores
  <1>1. CASE Next
    <2>1. CASE \E S \in SUBSET Rules : Evaluate(S)
      BY <2>1, EvaluateKeeps
    <2>2. CASE Invalidate
      BY <2>2, InvalidateKeeps
    <2>3. CASE \E r \in Rules : Process(r) \/ NewVersion(r) \/ Delete(r) \/ Reset(r)
      BY <2>3, ProcessKeeps, NewVersionKeeps, DeleteKeeps, ResetKeeps
    <2>4. CASE \E i \in Items : Take(i) \/ Return(i) \/ Lose(i)
      BY <2>4, TakeKeeps, ReturnKeeps, LoseKeeps
    <2>. QED BY <1>1, <2>1, <2>2, <2>3, <2>4 DEF Next
  <1>2. CASE UNCHANGED vars
    <2>1. UNCHANGED <<defined, version, state, ledger, stock, outside, pass, renewed,
                      moves, losses, edits>>
      BY <1>2 DEF vars, ruleVars, counters
    <2>2. TypeOK'
      BY <2>1 DEF Activation, TypeOK
    <2>3. Activation'
      BY <2>1, <2>2 DEF Activation, Holding, Behind, Ages
    <2>4. TakesBack /\ Restores
      BY <2>1 DEF TakesBack, Restores
    <2>. QED BY <2>3, <2>4
  <1>. QED BY <1>1, <1>2

LEMMA ActivationInit == Init => Activation
  <1> SUFFICES ASSUME Init PROVE Activation
    OBVIOUS
  <1>1. /\ defined = Rules /\ version = [r \in Rules |-> 1]
        /\ state = [r \in Rules |-> NotApplied] /\ ledger = <<>> /\ stock = Native
        /\ outside = [i \in Items |-> 0] /\ pass = NoPass /\ renewed = [r \in Rules |-> 0]
        /\ moves = 0 /\ losses = 0 /\ edits = 0
    BY DEF Init
  <1>2. Native \in [Items -> Nat]
    BY RewardAssumption DEF Items
  <1>3. DOMAIN ledger = {}
    BY <1>1
  <1>4. NotApplied \in Record /\ NotApplied.keys = {} /\ NotApplied.persistentKeys = {}
        /\ NotApplied.version = 0
    BY DEF NotApplied, Record
  <1>5. TypeOK
    BY <1>1, <1>2, <1>3, <1>4, ActivationBoundAssumption DEF TypeOK, Record, NoPass
  <1>6. HoldingWell(Holding)
    BY <1>1, <1>2, <1>3 DEF HoldingWell, Holding
  <1>7. \A r \in Rules : RecordOf(r, state[r]) /\ Ages(r) /\ renewed[r] - Behind(r) = 0
    BY <1>1, <1>4 DEF RecordOf, Ages, Behind
  <1>8. ASSUME NEW w \in Rewards
        PROVE  Books(Holding, w, outside[Reward[w].item],
                     renewed[Reward[w].rule] - Behind(Reward[w].rule), state[Reward[w].rule])
    <2>1. /\ Reward[w].rule \in Rules /\ Reward[w].item \in Items /\ Reward[w].amount \in Nat
          /\ Native[Reward[w].item] \in Nat
      BY RewardIs
    <2>2. /\ Holding.stock[Reward[w].item] = Native[Reward[w].item]
          /\ Key(w) \notin DOMAIN Holding.ledger
          /\ Expected(Holding, Key(w)) = 0 /\ Missing(Holding, Key(w)) = 0
      BY <1>1, <1>3 DEF Holding, Expected, Missing
    <2>3. outside[Reward[w].item] = 0 /\ state[Reward[w].rule] = NotApplied
          /\ renewed[Reward[w].rule] - Behind(Reward[w].rule) = 0
      BY <1>1, <1>7, <2>1
    <2>4. Reward[w].amount * (0 + 0) = 0
      BY <2>1
    <2>. QED BY <1>4, <2>1, <2>2, <2>3, <2>4 DEF Books, Even, Fair, Kept
  <1>. QED BY <1>5, <1>6, <1>7, <1>8 DEF Activation

LEMMA ActivationInvariant == Spec => []Activation
  <1>1. Activation /\ [Next]_vars => Activation'
    BY ActivationStep
  <1>. QED BY <1>1, ActivationInit, PTL DEF Spec

\* A sum over one reward.
LEMMA SumOfOne ==
    ASSUME TypeOK, NEW w \in Rewards, NEW s, s = {w}
    PROVE  MapThenSumSet(LAMBDA v : Reward[v].amount * (1 + renewed[Reward[v].rule]), s)
              = Reward[w].amount * (1 + renewed[Reward[w].rule])
  <1> DEFINE F(v) == Reward[v].amount * (1 + renewed[Reward[v].rule])
             Pick(t) == CHOOSE x \in t : TRUE
             Rest(g, t) == IF t = {} THEN 0 ELSE F(Pick(t)) + g[t \ {Pick(t)}]
             iter == CHOOSE g : g = [t \in SUBSET s |-> Rest(g, t)]
             table == [t \in SUBSET s |-> IF t = {} THEN 0 ELSE F(w)]
             again == [t \in SUBSET s |-> Rest(table, t)]
  <1>1. MapThenSumSet(LAMBDA v : Reward[v].amount * (1 + renewed[Reward[v].rule]), s) = iter[s]
    BY DEF MapThenSumSet, MapThenFoldSet
  <1>t. F(w) \in Int
    <2>1. Reward[w].amount \in Nat /\ renewed[Reward[w].rule] \in Nat
      BY RewardIs DEF TypeOK
    <2> DEFINE n == Reward[w].amount
               f == 1 + renewed[Reward[w].rule]
    <2>2. n \in Nat /\ f \in Nat
      BY <2>1
    <2> HIDE DEF n, f
    <2>3. n * f \in Nat
      BY <2>2, OneMore
    <2>. QED BY <2>3 DEF n, f
  <1> HIDE DEF F
  <1>2. \A t \in SUBSET s : t = {} \/ t = {w}
    OBVIOUS
  <1>3. Pick({w}) = w /\ {w} \ {w} = {}
    OBVIOUS
  <1>4. {} \in SUBSET s /\ {w} \in SUBSET s
    OBVIOUS
  <1> HIDE DEF Pick
  <1>5. table[{}] = 0 /\ table[{w}] = F(w)
    BY <1>4
  <1> HIDE DEF table
  <1>6. Rest(table, {}) = 0 /\ Rest(table, {w}) = F(w)
    <2>1. Rest(table, {w}) = F(w) + 0
      BY <1>3, <1>5
    <2>. QED BY <1>t, <2>1
  <1>7. \A t \in SUBSET s : table[t] = again[t]
    <2> HIDE DEF Rest
    <2>1. \A t \in SUBSET s : again[t] = Rest(table, t)
      OBVIOUS
    <2> HIDE DEF again
    <2>2. \A t \in SUBSET s : table[t] = Rest(table, t)
      BY <1>2, <1>5, <1>6
    <2>. QED BY <2>1, <2>2
  <1>8. table = again
    BY <1>7 DEF table
  <1>9. \E g : g = [t \in SUBSET s |-> Rest(g, t)]
    <2> HIDE DEF Rest
    <2>. QED BY <1>8
  <1>10. iter = [t \in SUBSET s |-> Rest(iter, t)]
    <2> HIDE DEF Rest
    <2>. QED BY <1>9
  <1> HIDE DEF iter
  <1>11. iter[{}] = Rest(iter, {}) /\ iter[{w}] = Rest(iter, {w})
    <2> HIDE DEF Rest
    <2>. QED BY <1>4, <1>10
  <1>12. iter[{}] = 0
    BY <1>11
  <1>13. iter[{w}] = F(w) + 0
    BY <1>3, <1>11, <1>12
  <1>14. iter[s] = F(w)
    BY <1>t, <1>13
  <1>. QED BY <1>1, <1>14 DEF F

LEMMA ActivationBounds ==
    ASSUME Activation
    PROVE  NoFarmingAlone
  <1> SUFFICES ASSUME NEW w \in Rewards, Alone(w), ~Reward[w].persistent
               PROVE  Bounded(Reward[w].item)
    BY DEF NoFarmingAlone
  <1> DEFINE i == Reward[w].item
             r == Reward[w].rule
             n == Reward[w].amount
             f == renewed[r] - Behind(r)
             e == IF w \in state[r].keys THEN 1 ELSE 0
  <1>1. TypeOK /\ r \in Rules /\ i \in Items /\ renewed[r] \in Nat
    BY RewardIs DEF Activation, TypeOK
  <1>2. f \in Nat /\ f <= renewed[r] /\ e \in {0, 1}
    BY <1>1, FreshStarts DEF Activation
  <1>3. /\ Holding.stock[i] \in Nat /\ outside[i] \in Nat /\ Native[i] \in Nat /\ n \in Nat
        /\ Expected(Holding, Key(w)) \in Nat /\ Holding.stock = stock
    BY <1>1, BooksNumbers, OutsideIs DEF Activation, Holding
  <1>4. Books(Holding, w, outside[i], f, state[r])
    BY DEF Activation
  <1>5. /\ Holding.stock[i] + outside[i] <= Native[i] + Expected(Holding, Key(w))
        /\ Expected(Holding, Key(w)) <= n * (f + e)
    BY <1>4 DEF Books, Even, Fair
  <1>6. n * (f + e) <= n * (1 + renewed[r])
    <2> DEFINE b == (1 + renewed[r]) - (f + e)
               a == f + e
    <2>1. a \in Nat /\ b \in Nat /\ 1 + renewed[r] = a + b
      BY <1>1, <1>2
    <2> HIDE DEF a, b, n
    <2>2. n * (a + b) = n * a + n * b /\ n * a \in Nat /\ n * b \in Nat
      BY <1>3, <2>1
    <2>3. n * a <= n * (a + b)
      BY <2>2
    <2>. QED BY <2>1, <2>3 DEF a
  <1>7. {v \in Rewards : Reward[v].item = i} = {w}
    BY DEF Alone
  <1>8. MapThenSumSet(LAMBDA v : Reward[v].amount * (1 + renewed[Reward[v].rule]),
                      {v \in Rewards : Reward[v].item = i}) = n * (1 + renewed[r])
    BY <1>1, <1>7, SumOfOne
  <1>9. n * (f + e) \in Nat /\ n * (1 + renewed[r]) \in Nat
    <2>1. f + e \in Nat /\ 1 + renewed[r] \in Nat
      BY <1>1, <1>2
    <2> HIDE DEF n, f, e
    <2>. QED BY <1>3, <2>1, OneMore
  <1>10. stock[i] + outside[i] <= Native[i] + n * (1 + renewed[r])
    <2> HIDE DEF n, f, e
    <2>. QED BY <1>3, <1>5, <1>6, <1>9
  <1>. QED BY <1>8, <1>10 DEF Bounded

\* Every variable of the activation keeps its type, and no entry of the ledger misses
\* more than was expected of it.
THEOREM ActivationTypes == Spec => []TypeOK
  <1>1. Activation => TypeOK
    BY DEF Activation
  <1>. QED BY <1>1, ActivationInvariant, PTL

\* However often its rule starts, ends, is reset or gets a new version within one game,
\* and whatever the player takes, brings back or loses, a temporary reward that is alone of
\* its item exists at most once for every fresh start of its rule beyond what the actor had
\* (RemoveAppliedActivationRewards, RemoveManagedTemporaryItemOnInvalidation).
THEOREM TemporaryIsNotFarmed == Spec => []NoFarmingAlone
  BY ActivationBounds, ActivationInvariant, PTL

\* A rule that ends leaves the actor no copy of its temporary reward beyond what the
\* actor had (RemoveManagedTemporaryItemOnInvalidation).
THEOREM EndedRuleTakesBack == Spec => TemporaryIsGone
  <1>1. Activation /\ [Next]_vars => [TakesBack]_vars
    BY ActivationStep
  <1>. QED BY <1>1, ActivationInvariant, PTL DEF Spec, TemporaryIsGone, TakesBack

\* A pass that applies a rule leaves every copy of its persistent reward on the actor or
\* in the container it was taken to (RestorePersistentRewardIfNeeded).
THEOREM RewardsAreRestored == Spec => PersistentIsRestored
  <1>1. Activation /\ [Next]_vars => [Restores]_vars
    BY ActivationStep
  <1>. QED BY <1>1, ActivationInvariant, PTL DEF Spec, PersistentIsRestored, Restores
=============================================================================
