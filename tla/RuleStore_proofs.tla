--------------------------- MODULE RuleStore_proofs ---------------------------
(***************************************************************************)
(* Proofs about RuleStore, for any sets of rules, packages and contents:   *)
(* the store implements RuleLedger, the versions that saved games name are *)
(* known, and deleted rules stay deleted.                                  *)
(*                                                                         *)
(* All three rest on one inductive invariant, StoreInv: a row's versions   *)
(* end with its current one (RowsInOrder); a rule in memory has a version  *)
(* that none of its row exceeds, so that the next one is new (NewestIn-    *)
(* Memory); memory agrees with itself on a rule's package (MemoryOwned)    *)
(* and is empty while the program is down (DownIsEmpty); a package that is *)
(* not there has no rows (AbsentIsEmpty); and the row of a deleted rule is *)
(* gone or marked, so that a start does not bring it back (BuriedRows).    *)
(***************************************************************************)
EXTENDS RuleStore, Sequences, TLAPS

Row == [current : 0..MaxVersion, deleted : BOOLEAN, versions : SUBSET Version]
LegacyFile == [rule : RuleIDs, version : 1..MaxVersion, content : Contents]
MemoryRule == [package : Packages, version : 0..MaxVersion, content : Contents,
               saved : Seq(Contents)]
Saving == [on : BOOLEAN, save : SUBSET RuleIDs, delete : SUBSET (Packages \ {Local}),
           failed : BOOLEAN]

DiskTypeOK ==
    /\ present \in SUBSET Packages
    /\ rows \in [RowKeys -> Row]
    /\ legacy = NoFile \/ \E file \in LegacyFile : legacy = <<file>>

MemoryTypeOK ==
    /\ DOMAIN rules \subseteq RuleIDs
    /\ \A r \in DOMAIN rules : rules[r] \in MemoryRule
    /\ DOMAIN owners \subseteq RuleIDs
    /\ \A r \in DOMAIN owners : owners[r] \in Packages
    /\ histories \in [RuleIDs -> SUBSET Version]

PackageTypeOK ==
    /\ packages \in SUBSET present
    /\ doomed \in SUBSET (Packages \ {Local})
    /\ saving \in Saving
    /\ buried \in SUBSET RowKeys

RowsInOrder ==
    \A k \in RowKeys : rows[k] # NoRow =>
        /\ \A w \in rows[k].versions : w.version <= rows[k].current
        /\ \E w \in rows[k].versions : w.version = rows[k].current

AbsentIsEmpty == \A p \in Packages, r \in RuleIDs : p \notin present => rows[<<p, r>>] = NoRow

MemoryOwned == \A r \in DOMAIN rules : r \in DOMAIN owners /\ owners[r] = rules[r].package

DownIsEmpty == ~up => DOMAIN rules = {} /\ DOMAIN owners = {}

NewestInMemory ==
    \A r \in DOMAIN rules : \A w \in rows[KeyOf(r)].versions : w.version <= rules[r].version

BuriedRows == \A k \in buried : rows[k] = NoRow \/ rows[k].deleted

DiskInv == DiskTypeOK /\ RowsInOrder /\ AbsentIsEmpty
MemoryInv == MemoryTypeOK /\ MemoryOwned /\ DownIsEmpty

StoreInv ==
    /\ DiskInv /\ MemoryInv /\ PackageTypeOK
    /\ NewestInMemory /\ BuriedRows /\ VersionsKnown /\ DeletedStayDeleted
----------------------------------------------------------------------------
LEMMA NoRowIsRow == NoRow \in Row
  BY RuleStoreAssumption DEF NoRow, Row

LEMMA StoreInitially == RuleStoreInit => StoreInv
  <1> SUFFICES ASSUME RuleStoreInit PROVE StoreInv
    OBVIOUS
  <1> USE DEF RuleStoreInit
  <1>1. \A k \in RowKeys : rows[k] = NoRow
    OBVIOUS
  <1>2. DOMAIN rules = {} /\ DOMAIN owners = {}
    OBVIOUS
  <1>3. DiskInv
    BY <1>1, NoRowIsRow, RuleStoreAssumption
       DEF DiskInv, DiskTypeOK, RowsInOrder, AbsentIsEmpty, RowKeys
  <1>4. MemoryInv
    BY <1>2 DEF MemoryInv, MemoryTypeOK, MemoryOwned, DownIsEmpty
  <1>5. PackageTypeOK
    BY DEF PackageTypeOK, NotSaving, Saving
  <1>6. NewestInMemory /\ BuriedRows /\ VersionsKnown /\ DeletedStayDeleted
    BY <1>2 DEF NewestInMemory, BuriedRows, VersionsKnown, DeletedStayDeleted
  <1>. QED BY <1>3, <1>4, <1>5, <1>6 DEF StoreInv

\* The current content of a row is one that the author wrote.
LEMMA CurrentOfRow ==
    ASSUME NEW row \in Row, \E w \in row.versions : w.version = row.current
    PROVE  CurrentContent(row) \in Contents
  <1> DEFINE w == CHOOSE w \in row.versions : w.version = row.current
  <1>1. w \in row.versions
    OBVIOUS
  <1>2. w \in Version
    BY <1>1 DEF Row
  <1>. QED BY <1>2 DEF CurrentContent, Version

LEMMA RuleOfRow ==
    ASSUME NEW p \in Packages, NEW row \in Row, \E w \in row.versions : w.version = row.current
    PROVE  RuleOf(p, row) \in MemoryRule
  <1>1. CurrentContent(row) \in Contents
    BY CurrentOfRow
  <1>2. row.current \in 0..MaxVersion
    BY DEF Row
  <1>. QED BY <1>1, <1>2 DEF RuleOf, MemoryRule
----------------------------------------------------------------------------
\* One transaction (Saved): the version is newer than all of its row, whose
\* versions memory knows, and the package stays the rule's.
Fits(r, p, w) ==
    /\ \A v \in rows[<<p, r>>].versions : v.version < w.version
    /\ rows[<<p, r>>].versions \subseteq histories[r]
    /\ <<p, r>> \notin buried
    /\ r \in DOMAIN rules => rules[r].package = p

LEMMA SavedRow ==
    ASSUME StoreInv, NEW r \in RuleIDs, NEW p \in Packages, NEW w \in Version,
           Saved(r, p, w), Fits(r, p, w)
    PROVE  /\ rows'[<<p, r>>] \in Row
           /\ rows'[<<p, r>>].versions = rows[<<p, r>>].versions \cup {w}
           /\ rows'[<<p, r>>].current = w.version
           /\ \A k \in RowKeys : k # <<p, r>> => rows'[k] = rows[k]
           /\ rows' \in [RowKeys -> Row]
           /\ rules'[r] \in MemoryRule
           /\ rules'[r].package = p /\ rules'[r].version = w.version
  <1> DEFINE k == <<p, r>>
             row == [current |-> w.version, deleted |-> FALSE,
                     versions |-> rows[k].versions \cup {w}]
  <1>1. k \in RowKeys /\ rows \in [RowKeys -> Row] /\ rows[k] \in Row
    BY DEF RowKeys, StoreInv, DiskInv, DiskTypeOK
  <1>2. w.version \in 0..MaxVersion
    BY RuleStoreAssumption DEF Version
  <1>3. row \in Row
    BY <1>1, <1>2 DEF Row
  <1>4. rows' = [rows EXCEPT ![k] = row] /\ rules' = With(rules, r, RuleOf(p, row))
    BY DEF Saved
  <1>5. \E v \in row.versions : v.version = row.current
    OBVIOUS
  <1>6. RuleOf(p, row) \in MemoryRule
    BY <1>3, <1>5, RuleOfRow
  <1>7. rules'[r] = RuleOf(p, row)
    BY <1>4 DEF With
  <1>8. rows'[k] = row /\ rows' \in [RowKeys -> Row]
    BY <1>1, <1>3, <1>4
  <1>9. rows'[k].versions = rows[k].versions \cup {w} /\ rows'[k].current = w.version
    BY <1>8
  <1>10. rules'[r].package = p /\ rules'[r].version = w.version
    BY <1>7 DEF RuleOf
  <1>11. \A j \in RowKeys : j # k => rows'[j] = rows[j]
    BY <1>1, <1>4
  <1>. QED BY <1>1, <1>3, <1>6, <1>7, <1>8, <1>9, <1>10, <1>11

LEMMA SavedMemory ==
    ASSUME StoreInv, NEW r \in RuleIDs, NEW p \in Packages, NEW w \in Version,
           Saved(r, p, w), Fits(r, p, w)
    PROVE  /\ DOMAIN rules' = DOMAIN rules \cup {r} /\ DOMAIN owners' = DOMAIN owners \cup {r}
           /\ \A q \in DOMAIN rules : q # r => rules'[q] = rules[q]
           /\ owners'[r] = p /\ \A q \in DOMAIN owners : q # r => owners'[q] = owners[q]
           /\ histories' \in [RuleIDs -> SUBSET Version]
           /\ rows'[<<p, r>>].versions \subseteq histories'[r]
           /\ \A q \in RuleIDs : q # r => histories'[q] = histories[q]
  <1>1. PICK new : rules' = With(rules, r, new)
    BY DEF Saved
  <1>2. DOMAIN rules' = DOMAIN rules \cup {r}
        /\ \A q \in DOMAIN rules : q # r => rules'[q] = rules[q]
    BY <1>1 DEF With
  <1>3. /\ DOMAIN owners' = DOMAIN owners \cup {r} /\ owners'[r] = p
        /\ \A q \in DOMAIN owners : q # r => owners'[q] = owners[q]
    BY DEF With, Saved
  <1>4. histories \in [RuleIDs -> SUBSET Version]
    BY DEF StoreInv, MemoryInv, MemoryTypeOK
  <1>5. histories' = [histories EXCEPT
                        ![r] = {h \in histories[r] : h.version # w.version} \cup {w}]
    BY DEF Saved, HistoryWith
  <1>6. histories' \in [RuleIDs -> SUBSET Version]
    BY <1>4, <1>5
  <1>7. rows'[<<p, r>>].versions = rows[<<p, r>>].versions \cup {w}
    BY SavedRow
  <1>8. rows'[<<p, r>>].versions \subseteq histories'[r]
    <2>1. histories'[r] = {h \in histories[r] : h.version # w.version} \cup {w}
      BY <1>4, <1>5
    <2>2. \A v \in rows[<<p, r>>].versions : v \in histories[r] /\ v.version # w.version
      <3>1. \A v \in rows[<<p, r>>].versions : v.version < w.version
        BY DEF Fits
      <3>2. w.version \in Int
        BY DEF Version
      <3>3. \A v \in rows[<<p, r>>].versions : v \in histories[r]
        BY DEF Fits
      <3>. QED BY <3>1, <3>2, <3>3
    <2>. QED BY <1>7, <2>1, <2>2
  <1>9. \A q \in RuleIDs : q # r => histories'[q] = histories[q]
    BY <1>4, <1>5
  <1>. QED BY <1>2, <1>3, <1>6, <1>8, <1>9

LEMMA SavedKeeps ==
    ASSUME StoreInv, NEW r \in RuleIDs, NEW p \in Packages \cap present, NEW w \in Version,
           Saved(r, p, w), Fits(r, p, w), up,
           UNCHANGED <<present, legacy, up, packages, doomed, buried>>, saving' \in Saving
    PROVE  StoreInv'
  <1> USE DEF StoreInv
  <1> DEFINE k == <<p, r>>
  <1>1. k \in RowKeys
    BY DEF RowKeys
  <1>2. /\ rows'[k] \in Row /\ rows'[k].versions = rows[k].versions \cup {w}
        /\ rows'[k].current = w.version /\ rows' \in [RowKeys -> Row]
        /\ \A j \in RowKeys : j # k => rows'[j] = rows[j]
        /\ rules'[r] \in MemoryRule /\ rules'[r].package = p /\ rules'[r].version = w.version
    BY SavedRow
  <1>3. /\ DOMAIN rules' = DOMAIN rules \cup {r} /\ DOMAIN owners' = DOMAIN owners \cup {r}
        /\ \A q \in DOMAIN rules : q # r => rules'[q] = rules[q]
        /\ owners'[r] = p /\ \A q \in DOMAIN owners : q # r => owners'[q] = owners[q]
        /\ histories' \in [RuleIDs -> SUBSET Version]
        /\ rows'[k].versions \subseteq histories'[r]
        /\ \A q \in RuleIDs : q # r => histories'[q] = histories[q]
    BY SavedMemory
  <1>4. \A v \in rows'[k].versions : v.version <= w.version
    <2>1. w.version \in Int /\ \A v \in rows'[k].versions : v \in Version
      BY <1>2 DEF Version, Row
    <2>2. \A v \in rows[k].versions : v.version < w.version
      BY DEF Fits
    <2>3. \A v \in rows'[k].versions : v = w \/ v.version < w.version
      BY <1>2, <2>2
    <2>. QED BY <2>1, <2>3 DEF Version
  <1>5. DiskInv'
    <2>1. DiskTypeOK'
      BY <1>2 DEF DiskInv, DiskTypeOK
    <2>2. RowsInOrder'
      BY <1>2, <1>4 DEF DiskInv, RowsInOrder
    <2>3. AbsentIsEmpty'
      <3> SUFFICES ASSUME NEW q \in Packages, NEW s \in RuleIDs, q \notin present
                   PROVE  rows'[<<q, s>>] = NoRow
        BY DEF AbsentIsEmpty
      <3>1. rows[<<q, s>>] = NoRow /\ <<q, s>> \in RowKeys /\ <<q, s>> # k
        BY DEF DiskInv, AbsentIsEmpty, RowKeys
      <3>. QED BY <3>1, <1>2
    <2>. QED BY <2>1, <2>2, <2>3 DEF DiskInv
  <1>6. MemoryInv'
    BY <1>2, <1>3 DEF MemoryInv, MemoryTypeOK, MemoryOwned, DownIsEmpty
  <1>7. PackageTypeOK'
    BY DEF PackageTypeOK
  <1>8. NewestInMemory'
    <2> SUFFICES ASSUME NEW q \in DOMAIN rules', NEW v \in rows'[<<rules'[q].package, q>>].versions
                 PROVE  v.version <= rules'[q].version
      BY DEF NewestInMemory, KeyOf
    <2>1. CASE q = r
      BY <1>2, <1>4, <2>1
    <2>2. CASE q # r
      <3>1. q \in DOMAIN rules /\ rules'[q] = rules[q]
        BY <1>3, <2>2
      <3>2. <<rules[q].package, q>> \in RowKeys
        BY <3>1 DEF MemoryInv, MemoryTypeOK, MemoryRule, RowKeys
      <3>3. <<rules[q].package, q>> # k
        BY <2>2
      <3>. QED BY <3>1, <3>2, <3>3, <1>2 DEF NewestInMemory, KeyOf
    <2>. QED BY <2>1, <2>2
  <1>9. BuriedRows'
    BY <1>2 DEF BuriedRows, Fits, PackageTypeOK
  <1>10. VersionsKnown'
    <2> SUFFICES ASSUME NEW q \in DOMAIN owners', owners'[q] \in packages'
                 PROVE  rows'[<<owners'[q], q>>].versions \subseteq histories'[q]
      BY DEF VersionsKnown
    <2>1. CASE q = r
      BY <1>3, <2>1
    <2>2. CASE q # r
      <3>1. q \in DOMAIN owners /\ owners'[q] = owners[q] /\ q \in RuleIDs
        BY <1>3, <2>2 DEF MemoryInv, MemoryTypeOK
      <3>2. <<owners[q], q>> \in RowKeys /\ <<owners[q], q>> # k
        BY <2>2, <3>1 DEF MemoryInv, MemoryTypeOK, RowKeys
      <3>. QED BY <1>2, <1>3, <2>2, <3>1, <3>2 DEF VersionsKnown
    <2>. QED BY <2>1, <2>2
  <1>11. DeletedStayDeleted'
    <2> SUFFICES ASSUME NEW j \in buried, j[2] \in DOMAIN rules' PROVE rules'[j[2]].package # j[1]
      BY DEF DeletedStayDeleted, InMemory
    <2>1. CASE j[2] = r
      BY <1>2, <2>1 DEF Fits, PackageTypeOK, RowKeys
    <2>2. CASE j[2] # r
      BY <1>3, <2>2 DEF DeletedStayDeleted, InMemory
    <2>. QED BY <2>1, <2>2
  <1>. QED BY <1>5, <1>6, <1>7, <1>8, <1>9, <1>10, <1>11
----------------------------------------------------------------------------
\* The three ways to save: SaveRules, QueueCreateRule, QueueUpdateRule.
LEMMA NewRuleFits ==
    ASSUME StoreInv, NEW r \in RuleIDs, NEW p \in Packages, NEW w \in Version, Unused(r)
    PROVE  Fits(r, p, w)
  <1> USE DEF StoreInv
  <1>1. <<p, r>> \in RowKeys /\ rows[<<p, r>>] = NoRow
    BY DEF Unused, RowKeys
  <1>2. r \notin DOMAIN rules
    BY DEF Unused, MemoryInv, MemoryOwned
  <1>. QED BY <1>1, <1>2 DEF Fits, Unused, NoRow

LEMMA NextVersionFits ==
    ASSUME StoreInv, NEW r \in RuleIDs, CanSave(r), NEW w \in Version, w.version = NextVersion(r)
    PROVE  Fits(r, rules[r].package, w)
  <1> USE DEF StoreInv
  <1> DEFINE p == rules[r].package
  <1>1. r \in DOMAIN rules /\ p \in packages /\ rules[r] \in MemoryRule
    BY DEF CanSave, InMemory, MemoryInv, MemoryTypeOK
  <1>2. r \in DOMAIN owners /\ owners[r] = p
    BY <1>1 DEF MemoryInv, MemoryOwned
  <1>3. rows[<<p, r>>].versions \subseteq histories[r]
    BY <1>1, <1>2 DEF VersionsKnown
  <1>4. \A v \in rows[<<p, r>>].versions : v.version < w.version
    <2>1. <<p, r>> \in RowKeys /\ rules[r].version \in Nat
      BY <1>1 DEF MemoryRule, RowKeys
    <2>2. \A v \in rows[<<p, r>>].versions : v.version \in Nat /\ v.version <= rules[r].version
      BY <1>1, <2>1 DEF NewestInMemory, KeyOf, DiskInv, DiskTypeOK, Row, Version
    <2>. QED BY <2>1, <2>2 DEF NextVersion
  <1>5. <<p, r>> \notin buried
    BY <1>1 DEF DeletedStayDeleted, InMemory
  <1>. QED BY <1>3, <1>4, <1>5 DEF Fits

\* What SaveNext commits, if it does.
LEMMA NextIsVersion ==
    ASSUME StoreInv, NEW r \in RuleIDs, CanSave(r), NEW c \in Contents
    PROVE  [version |-> NextVersion(r), content |-> c] \in Version
  <1>1. rules[r] \in MemoryRule
    BY DEF CanSave, InMemory, StoreInv, MemoryInv, MemoryTypeOK
  <1>2. NextVersion(r) \in 1..MaxVersion
    BY <1>1, RuleStoreAssumption DEF CanSave, NextVersion, MemoryRule
  <1>. QED BY <1>2 DEF Version

LEMMA SaveNextKeeps ==
    ASSUME StoreInv, NEW r \in RuleIDs, SaveNext(r) PROVE StoreInv'
  <1> DEFINE p == rules[r].package
             w == [version |-> NextVersion(r), content |-> rules[r].content]
  <1>1. saving \in Saving
    BY DEF StoreInv, PackageTypeOK
  <1>2. /\ saving' \in Saving
        /\ UNCHANGED <<present, legacy, up, packages, doomed, buried>>
    BY <1>1 DEF SaveNext, Saving
  <1>3. CASE CanSave(r) /\ Saved(r, p, w)
    <2>1. rules[r] \in MemoryRule /\ p \in Packages \cap present /\ up
      BY <1>3 DEF CanSave, InMemory, StoreInv, MemoryInv, MemoryTypeOK, DownIsEmpty, MemoryRule
    <2>2. w \in Version
      BY <1>3, <2>1, NextIsVersion DEF MemoryRule
    <2>3. Fits(r, p, w)
      BY <1>3, <2>2, NextVersionFits
    <2>. HIDE DEF w
    <2>. QED BY <1>2, <1>3, <2>1, <2>2, <2>3, SavedKeeps
  <1>4. CASE UNCHANGED <<rows, rules, histories, owners>>
    BY <1>2, <1>4 DEF StoreInv, DiskInv, DiskTypeOK, RowsInOrder, AbsentIsEmpty, MemoryInv,
       MemoryTypeOK, MemoryOwned, DownIsEmpty, PackageTypeOK, NewestInMemory, KeyOf, BuriedRows,
       VersionsKnown, DeletedStayDeleted, InMemory
  <1>. QED BY <1>3, <1>4 DEF SaveNext

LEMMA ApiUpdateKeeps ==
    ASSUME StoreInv, NEW r \in RuleIDs, NEW c \in Contents, ApiUpdate(r, c) PROVE StoreInv'
  <1> DEFINE p == rules[r].package
             w == [version |-> NextVersion(r), content |-> c]
  <1>1. CanSave(r) /\ Saved(r, p, w) /\ saving' = saving
        /\ UNCHANGED <<present, legacy, up, packages, doomed, buried>>
    BY DEF ApiUpdate
  <1>2. rules[r] \in MemoryRule /\ p \in Packages \cap present /\ up /\ saving' \in Saving
    BY <1>1 DEF CanSave, InMemory, StoreInv, MemoryInv, MemoryTypeOK, DownIsEmpty, MemoryRule,
       PackageTypeOK
  <1>3. w \in Version
    BY <1>1, NextIsVersion
  <1>4. Fits(r, p, w)
    BY <1>1, <1>3, NextVersionFits
  <1>. HIDE DEF w
  <1>. QED BY <1>1, <1>2, <1>3, <1>4, SavedKeeps

LEMMA ApiCreateKeeps ==
    ASSUME StoreInv, NEW r \in RuleIDs, NEW q \in Packages, NEW c \in Contents,
           ApiCreate(r, q, c)
    PROVE  StoreInv'
  <1> DEFINE p == PackageFor(q)
             w == [version |-> 1, content |-> c]
  <1>1. Unused(r) /\ Saved(r, p, w) /\ saving' = saving /\ up /\ p \in present
        /\ UNCHANGED <<present, legacy, up, packages, doomed, buried>>
    BY DEF ApiCreate, Ready
  <1>2. p \in Packages \cap present /\ saving' \in Saving
    BY <1>1 DEF StoreInv, DiskInv, DiskTypeOK, PackageTypeOK
  <1>3. w \in Version
    BY RuleStoreAssumption DEF Version, ApiCreate
  <1>4. Fits(r, p, w)
    BY <1>1, <1>2, <1>3, NewRuleFits
  <1>. HIDE DEF w, p
  <1>. QED BY <1>1, <1>2, <1>3, <1>4, SavedKeeps
----------------------------------------------------------------------------
(* The editor: new rules, edits and deletions.                              *)

LEMMA PackageForNew ==
    ASSUME StoreInv, NEW p \in Packages PROVE PackageFor(p) \in Packages
  BY RuleStoreAssumption DEF PackageFor

\* A rule in memory that no row knows.
LEMMA CreateKeeps ==
    ASSUME StoreInv, NEW r \in RuleIDs, NEW p \in Packages, NEW c \in Contents, Unused(r), up,
           rules' = With(rules, r, NewRule(p, c)), owners' = With(owners, r, p),
           histories' \in [RuleIDs -> SUBSET Version],
           \A q \in RuleIDs : q # r => histories'[q] = histories[q],
           UNCHANGED <<diskVars, up, packages, deleted, doomed, saving, buried>>
    PROVE  StoreInv'
  <1> USE DEF StoreInv
  <1>1. /\ DOMAIN rules' = DOMAIN rules \cup {r} /\ DOMAIN owners' = DOMAIN owners \cup {r}
        /\ \A q \in DOMAIN rules : q # r => rules'[q] = rules[q]
        /\ \A q \in DOMAIN owners : q # r => owners'[q] = owners[q]
        /\ rules'[r] = NewRule(p, c) /\ owners'[r] = p
    BY DEF With
  <1>2. NewRule(p, c) \in MemoryRule /\ NewRule(p, c).package = p
    BY RuleStoreAssumption DEF NewRule, MemoryRule
  <1>3. rows[<<p, r>>] = NoRow /\ \A k \in buried : k[2] # r
    BY DEF Unused
  <1>4. DiskInv'
    BY DEF diskVars, DiskInv, DiskTypeOK, RowsInOrder, AbsentIsEmpty
  <1>5. MemoryInv'
    BY <1>1, <1>2 DEF MemoryInv, MemoryTypeOK, MemoryOwned, DownIsEmpty
  <1>6. PackageTypeOK'
    BY DEF diskVars, PackageTypeOK
  <1>7. NewestInMemory'
    BY <1>1, <1>2, <1>3 DEF diskVars, NewestInMemory, KeyOf, NoRow
  <1>8. BuriedRows'
    BY DEF diskVars, BuriedRows
  <1>9. VersionsKnown'
    <2> SUFFICES ASSUME NEW q \in DOMAIN owners', owners'[q] \in packages
                 PROVE  rows[<<owners'[q], q>>].versions \subseteq histories'[q]
      BY DEF diskVars, VersionsKnown
    <2>1. CASE q = r
      BY <1>1, <1>3, <2>1 DEF NoRow
    <2>2. CASE q # r
      <3>1. q \in DOMAIN owners /\ owners'[q] = owners[q] /\ q \in RuleIDs
        BY <1>1, <2>2 DEF MemoryInv, MemoryTypeOK
      <3>. QED BY <2>2, <3>1 DEF VersionsKnown
    <2>. QED BY <2>1, <2>2
  <1>10. DeletedStayDeleted'
    BY <1>1, <1>3 DEF DeletedStayDeleted, InMemory
  <1>. QED BY <1>4, <1>5, <1>6, <1>7, <1>8, <1>9, <1>10

LEMMA CreateRuleKeeps ==
    ASSUME StoreInv, NEW r \in RuleIDs, NEW p \in Packages, NEW c \in Contents,
           CreateRule(r, p, c)
    PROVE  StoreInv'
  <1>1. histories' = histories /\ histories \in [RuleIDs -> SUBSET Version]
    BY DEF CreateRule, StoreInv, MemoryInv, MemoryTypeOK
  <1>. QED BY <1>1, PackageForNew, CreateKeeps DEF CreateRule, Ready

LEMMA DuplicateRuleKeeps ==
    ASSUME StoreInv, NEW r \in RuleIDs, NEW q \in RuleIDs, NEW p \in Packages,
           DuplicateRule(q, r, p)
    PROVE  StoreInv'
  <1>1. histories' = [histories EXCEPT ![r] = {}] /\ histories \in [RuleIDs -> SUBSET Version]
    BY DEF DuplicateRule, StoreInv, MemoryInv, MemoryTypeOK
  <1>2. /\ histories' \in [RuleIDs -> SUBSET Version]
        /\ \A s \in RuleIDs : s # r => histories'[s] = histories[s]
    BY <1>1
  <1>3. rules[q].content \in Contents
    BY DEF DuplicateRule, InMemory, StoreInv, MemoryInv, MemoryTypeOK, MemoryRule
  <1>. QED BY <1>2, <1>3, CreateKeeps DEF DuplicateRule, Ready

LEMMA EditKeeps ==
    ASSUME StoreInv, NEW r \in RuleIDs, NEW c \in Contents, EditRule(r, c) PROVE StoreInv'
  <1> USE DEF StoreInv
  <1>1. /\ r \in DOMAIN rules /\ rules' = [rules EXCEPT ![r].content = c]
        /\ UNCHANGED <<diskVars, up, packages, histories, owners, deleted, doomed, saving, buried>>
    BY DEF EditRule, InMemory
  <1>2. /\ DOMAIN rules' = DOMAIN rules /\ rules'[r] = [rules[r] EXCEPT !.content = c]
        /\ \A q \in DOMAIN rules : q # r => rules'[q] = rules[q]
    BY <1>1
  <1>3. rules[r] \in MemoryRule
    BY <1>1 DEF MemoryInv, MemoryTypeOK
  <1>4. /\ rules'[r] \in MemoryRule /\ rules'[r].package = rules[r].package
        /\ rules'[r].version = rules[r].version
    BY <1>2, <1>3 DEF MemoryRule
  <1>5. \A q \in DOMAIN rules : /\ rules'[q].package = rules[q].package
                                /\ rules'[q].version = rules[q].version
    BY <1>2, <1>4
  <1>6. DiskInv' /\ PackageTypeOK' /\ BuriedRows' /\ VersionsKnown'
    BY <1>1 DEF diskVars, DiskInv, DiskTypeOK, RowsInOrder, AbsentIsEmpty, PackageTypeOK,
       BuriedRows, VersionsKnown
  <1>7. MemoryInv'
    BY <1>1, <1>2, <1>4, <1>5 DEF MemoryInv, MemoryTypeOK, MemoryOwned, DownIsEmpty
  <1>8. NewestInMemory'
    BY <1>1, <1>2, <1>5 DEF diskVars, NewestInMemory, KeyOf
  <1>9. DeletedStayDeleted'
    BY <1>1, <1>2, <1>5 DEF DeletedStayDeleted, InMemory
  <1>. QED BY <1>6, <1>7, <1>8, <1>9

\* What is left of memory, when rules leave it (Forgotten, DeletePackage).
LEMMA ForgetKeeps ==
    ASSUME StoreInv, NEW gone, rules' = Restrict(rules, DOMAIN rules \ gone),
           DOMAIN owners' \subseteq DOMAIN owners,
           \A q \in DOMAIN owners' : owners'[q] = owners[q],
           DOMAIN owners \ gone \subseteq DOMAIN owners',
           histories' \in [RuleIDs -> SUBSET Version], up' = up
    PROVE  MemoryInv'
  <1>1. DOMAIN rules' = DOMAIN rules \ gone /\ \A q \in DOMAIN rules' : rules'[q] = rules[q]
    BY DEF Restrict
  <1>. QED BY <1>1 DEF StoreInv, MemoryInv, MemoryTypeOK, MemoryOwned, DownIsEmpty

LEMMA ForgottenKeeps ==
    ASSUME StoreInv, NEW r \in DOMAIN rules, Forgotten(r), up' = up, packages' = packages,
           \A k \in RowKeys : rows'[k].versions = rows[k].versions
    PROVE  /\ MemoryInv' /\ NewestInMemory' /\ VersionsKnown'
           /\ DOMAIN rules' = DOMAIN rules \ {r}
           /\ \A q \in DOMAIN rules' : rules'[q] = rules[q]
  <1> USE DEF StoreInv
  <1>1. DOMAIN rules' = DOMAIN rules \ {r} /\ \A q \in DOMAIN rules' : rules'[q] = rules[q]
    BY DEF Forgotten, Restrict
  <1>2. /\ DOMAIN owners' \subseteq DOMAIN owners
        /\ \A q \in DOMAIN owners' : owners'[q] = owners[q]
        /\ DOMAIN owners \ {r} \subseteq DOMAIN owners'
    BY DEF Forgotten, Restrict
  <1>3. histories \in [RuleIDs -> SUBSET Version] /\ r \in RuleIDs
    BY DEF MemoryInv, MemoryTypeOK
  <1>4. \/ histories' = histories
        \/ histories' = [histories EXCEPT ![r] = {}] /\ r \notin DOMAIN owners'
    BY DEF Forgotten, Restrict
  <1>5. histories' \in [RuleIDs -> SUBSET Version]
    BY <1>3, <1>4
  <1>6. MemoryInv'
    BY <1>2, <1>5, ForgetKeeps DEF Forgotten
  <1>7. NewestInMemory'
    <2>1. \A q \in DOMAIN rules : <<rules[q].package, q>> \in RowKeys
      BY DEF MemoryInv, MemoryTypeOK, MemoryRule, RowKeys
    <2>. QED BY <1>1, <2>1 DEF NewestInMemory, KeyOf
  <1>8. VersionsKnown'
    <2>1. \A q \in DOMAIN owners : <<owners[q], q>> \in RowKeys /\ q \in RuleIDs
      BY DEF MemoryInv, MemoryTypeOK, RowKeys
    <2>2. \A q \in DOMAIN owners' : histories'[q] = histories[q]
      BY <1>2, <1>3, <1>4, <2>1
    <2>. QED BY <1>2, <2>1, <2>2 DEF VersionsKnown
  <1>. QED BY <1>1, <1>6, <1>7, <1>8

LEMMA DiscardKeeps ==
    ASSUME StoreInv, NEW r \in RuleIDs, DiscardRule(r) PROVE StoreInv'
  <1> USE DEF StoreInv
  <1>1. r \in DOMAIN rules /\ Forgotten(r)
        /\ UNCHANGED <<diskVars, up, packages, doomed, saving, buried>>
    BY DEF DiscardRule, InMemory
  <1>2. /\ MemoryInv' /\ NewestInMemory' /\ VersionsKnown'
        /\ DOMAIN rules' = DOMAIN rules \ {r}
        /\ \A q \in DOMAIN rules' : rules'[q] = rules[q]
    BY <1>1, ForgottenKeeps DEF diskVars
  <1>3. DiskInv' /\ PackageTypeOK' /\ BuriedRows'
    BY <1>1 DEF diskVars, DiskInv, DiskTypeOK, RowsInOrder, AbsentIsEmpty, PackageTypeOK,
       BuriedRows
  <1>4. DeletedStayDeleted'
    BY <1>1, <1>2 DEF DeletedStayDeleted, InMemory
  <1>. QED BY <1>2, <1>3, <1>4

LEMMA DeletedRow ==
    ASSUME StoreInv, NEW r \in RuleIDs, DeleteRule(r)
    PROVE  /\ KeyOf(r) \in RowKeys /\ rows' \in [RowKeys -> Row]
           /\ \A k \in RowKeys : k # KeyOf(r) => rows'[k] = rows[k]
           /\ rows[KeyOf(r)] = NoRow => rows'[KeyOf(r)] = NoRow
           /\ rows[KeyOf(r)] # NoRow => rows'[KeyOf(r)].deleted
           /\ \A k \in RowKeys : rows'[k].versions = rows[k].versions
                               /\ rows'[k].current = rows[k].current
  <1>1. KeyOf(r) \in RowKeys /\ rows \in [RowKeys -> Row]
    BY DEF DeleteRule, InMemory, KeyOf, StoreInv, MemoryInv, MemoryTypeOK, MemoryRule, RowKeys,
       DiskInv, DiskTypeOK
  <1>2. rows' = [rows EXCEPT ![KeyOf(r)] =
                    IF rows[KeyOf(r)] = NoRow THEN NoRow ELSE RowDeleted(rows[KeyOf(r)])]
    BY DEF DeleteRule
  <1>3. /\ rows[KeyOf(r)] \in Row /\ RowDeleted(rows[KeyOf(r)]) \in Row
        /\ RowDeleted(rows[KeyOf(r)]).versions = rows[KeyOf(r)].versions
        /\ RowDeleted(rows[KeyOf(r)]).current = rows[KeyOf(r)].current
        /\ RowDeleted(rows[KeyOf(r)]).deleted
    BY <1>1 DEF RowDeleted, Row
  <1>. HIDE DEF KeyOf, RowDeleted
  <1>. QED BY <1>1, <1>2, <1>3, NoRowIsRow

LEMMA DeleteKeeps ==
    ASSUME StoreInv, NEW r \in RuleIDs, DeleteRule(r) PROVE StoreInv'
  <1> USE DEF StoreInv
  <1>1. /\ r \in DOMAIN rules /\ Forgotten(r) /\ rules[r].package \in present
        /\ buried' = buried \cup {KeyOf(r)}
        /\ UNCHANGED <<present, legacy, imports, up, packages, doomed, saving>>
    BY DEF DeleteRule, InMemory
  <1>2. /\ KeyOf(r) \in RowKeys /\ rows' \in [RowKeys -> Row]
        /\ \A k \in RowKeys : k # KeyOf(r) => rows'[k] = rows[k]
        /\ rows[KeyOf(r)] = NoRow => rows'[KeyOf(r)] = NoRow
        /\ rows[KeyOf(r)] # NoRow => rows'[KeyOf(r)].deleted
        /\ \A k \in RowKeys : rows'[k].versions = rows[k].versions
                            /\ rows'[k].current = rows[k].current
    BY DeletedRow
  <1>3. /\ MemoryInv' /\ NewestInMemory' /\ VersionsKnown'
        /\ DOMAIN rules' = DOMAIN rules \ {r}
        /\ \A q \in DOMAIN rules' : rules'[q] = rules[q]
    BY <1>1, <1>2, ForgottenKeeps
  <1>4. DiskInv'
    <2>1. \A k \in RowKeys : rows'[k] # NoRow => rows[k] # NoRow
      BY <1>2
    <2>2. RowsInOrder'
      BY <1>2, <2>1 DEF DiskInv, RowsInOrder
    <2>3. AbsentIsEmpty'
      BY <1>1, <2>1 DEF DiskInv, AbsentIsEmpty, RowKeys
    <2>. QED BY <1>1, <1>2, <2>2, <2>3 DEF DiskInv, DiskTypeOK
  <1>5. PackageTypeOK'
    BY <1>1, <1>2 DEF PackageTypeOK
  <1>6. BuriedRows'
    <2> SUFFICES ASSUME NEW k \in buried' PROVE rows'[k] = NoRow \/ rows'[k].deleted
      BY DEF BuriedRows
    <2>1. CASE k = KeyOf(r)
      BY <1>2, <2>1
    <2>2. CASE k # KeyOf(r)
      BY <1>1, <1>2, <2>2 DEF BuriedRows, PackageTypeOK
    <2>. QED BY <2>1, <2>2
  <1>7. DeletedStayDeleted'
    BY <1>1, <1>3 DEF DeletedStayDeleted, InMemory, KeyOf
  <1>. QED BY <1>3, <1>4, <1>5, <1>6, <1>7
----------------------------------------------------------------------------
(* Packages.                                                                *)

LEMMA CreatePackageKeeps ==
    ASSUME StoreInv, NEW p \in Packages, CreatePackage(p) PROVE StoreInv'
  <1> USE DEF StoreInv
  <1>1. /\ p \notin present /\ present' = present \cup {p} /\ packages' = packages \cup {p}
        /\ UNCHANGED <<rows, legacy, imports, up, rules, histories, owners, deleted, doomed,
                       saving, buried>>
    BY DEF CreatePackage
  <1>2. DiskInv' /\ PackageTypeOK'
    BY <1>1 DEF DiskInv, DiskTypeOK, RowsInOrder, AbsentIsEmpty, PackageTypeOK
  <1>3. MemoryInv' /\ NewestInMemory' /\ BuriedRows' /\ DeletedStayDeleted'
    BY <1>1 DEF MemoryInv, MemoryTypeOK, MemoryOwned, DownIsEmpty, NewestInMemory, KeyOf,
       BuriedRows, DeletedStayDeleted, InMemory
  <1>4. VersionsKnown'
    <2>1. \A r \in DOMAIN owners : owners[r] = p => rows[<<owners[r], r>>] = NoRow
      BY <1>1 DEF DiskInv, AbsentIsEmpty, MemoryInv, MemoryTypeOK
    <2>. QED BY <1>1, <2>1 DEF VersionsKnown, NoRow
  <1>. QED BY <1>2, <1>3, <1>4

\* Steps that touch neither the rows nor the rules.
LEMMA OthersKeep ==
    ASSUME StoreInv, UNCHANGED <<present, rows, up, packages, rules, histories, owners, buried>>,
           legacy' = NoFile \/ (\E file \in LegacyFile : legacy' = <<file>>),
           doomed' \in SUBSET (Packages \ {Local}), saving' \in Saving
    PROVE  StoreInv'
  BY DEF StoreInv, DiskInv, DiskTypeOK, RowsInOrder, AbsentIsEmpty, MemoryInv, MemoryTypeOK,
     MemoryOwned, DownIsEmpty, PackageTypeOK, NewestInMemory, KeyOf, BuriedRows, VersionsKnown,
     DeletedStayDeleted, InMemory

LEMMA RequestsKeep ==
    ASSUME StoreInv,
           \/ \E p \in Packages : MarkPackage(p)
           \/ BeginSaveRules
           \/ EndSaveRules
           \/ \E r \in RuleIDs, v \in 1..MaxVersion, c \in Contents :
                 DropLegacyFile([rule |-> r, version |-> v, content |-> c])
    PROVE  StoreInv'
  <1>1. /\ legacy = NoFile \/ (\E file \in LegacyFile : legacy = <<file>>)
        /\ doomed \in SUBSET (Packages \ {Local}) /\ saving \in Saving
        /\ present \in SUBSET Packages /\ packages \in SUBSET present
        /\ DOMAIN rules \subseteq RuleIDs
    BY DEF StoreInv, DiskInv, DiskTypeOK, PackageTypeOK, MemoryInv, MemoryTypeOK
  <1>2. ASSUME NEW p \in Packages, MarkPackage(p) PROVE StoreInv'
    <2>1. doomed' \in SUBSET (Packages \ {Local})
      BY <1>1, <1>2 DEF MarkPackage
    <2>. QED BY <1>1, <1>2, <2>1, OthersKeep DEF MarkPackage, diskVars
  <1>3. CASE BeginSaveRules
    <2>1. saving' \in Saving
      BY <1>1, <1>3 DEF BeginSaveRules, Saving
    <2>. QED BY <1>1, <1>3, <2>1, OthersKeep DEF BeginSaveRules, diskVars, memoryVars
  <1>4. CASE EndSaveRules
    <2>1. saving' \in Saving
      BY <1>4 DEF EndSaveRules, NotSaving, Saving
    <2>. QED BY <1>1, <1>4, <2>1, OthersKeep DEF EndSaveRules, diskVars, memoryVars
  <1>5. ASSUME NEW r \in RuleIDs, NEW v \in 1..MaxVersion, NEW c \in Contents,
               DropLegacyFile([rule |-> r, version |-> v, content |-> c])
        PROVE  StoreInv'
    <2>1. [rule |-> r, version |-> v, content |-> c] \in LegacyFile
      BY DEF LegacyFile
    <2>. QED BY <1>1, <1>5, <2>1, OthersKeep DEF DropLegacyFile, memoryVars
  <1>. QED BY <1>2, <1>3, <1>4, <1>5

LEMMA StopKeeps ==
    ASSUME StoreInv, Stop PROVE StoreInv'
  <1> USE DEF StoreInv
  <1>1. /\ ~up' /\ packages' = {} /\ DOMAIN rules' = {} /\ DOMAIN owners' = {}
        /\ histories' = [r \in RuleIDs |-> {}] /\ doomed' = {}
        /\ saving' = NotSaving /\ UNCHANGED <<diskVars, buried>>
    BY DEF Stop
  <1>2. DiskInv' /\ BuriedRows'
    BY <1>1 DEF diskVars, DiskInv, DiskTypeOK, RowsInOrder, AbsentIsEmpty, BuriedRows
  <1>3. MemoryInv'
    BY <1>1 DEF MemoryInv, MemoryTypeOK, MemoryOwned, DownIsEmpty
  <1>4. PackageTypeOK'
    BY <1>1 DEF PackageTypeOK, NotSaving, Saving, diskVars
  <1>5. NewestInMemory' /\ VersionsKnown' /\ DeletedStayDeleted'
    BY <1>1 DEF NewestInMemory, VersionsKnown, DeletedStayDeleted, InMemory
  <1>. QED BY <1>2, <1>3, <1>4, <1>5

LEMMA DeletePackageKeeps ==
    ASSUME StoreInv, NEW p \in Packages, DeleteNextPackage(p) PROVE StoreInv'
  <1> USE DEF StoreInv
  <1> DEFINE gone == {r \in DOMAIN rules : rules[r].package = p}
  <1>1. /\ rows' = [k \in RowKeys |-> IF k[1] = p THEN NoRow ELSE rows[k]] \/ rows' = rows
        /\ \/ /\ \A r \in RuleIDs : rows'[<<p, r>>] = NoRow
              /\ present' = present \ {p} /\ packages' = packages \ {p}
              /\ rules' = Restrict(rules, DOMAIN rules \ gone)
              /\ histories' = HistoriesWithout(gone)
              /\ owners' = Restrict(owners, DOMAIN owners \ gone)
              /\ doomed' = doomed \ {p}
           \/ UNCHANGED <<present, packages, histories, rules, owners, deleted, doomed>>
        /\ saving' = [saving EXCEPT !.delete = @ \ {p}]
        /\ UNCHANGED <<legacy, imports, up, buried, acts>>
    BY DEF DeleteNextPackage
  <1> HIDE DEF gone
  <1>2. /\ \A k \in RowKeys : rows'[k] = rows[k] \/ rows'[k] = NoRow
        /\ rows' \in [RowKeys -> Row]
    BY <1>1, NoRowIsRow DEF DiskInv, DiskTypeOK
  <1>3. saving' \in Saving
    BY <1>1 DEF PackageTypeOK, Saving
  <1>4. \A k \in RowKeys : rows'[k].versions \subseteq rows[k].versions
    BY <1>2 DEF NoRow
  <1>5. \A r \in RuleIDs : <<p, r>> \in RowKeys
    BY DEF RowKeys
  <1>6. DiskTypeOK' /\ RowsInOrder'
    BY <1>1, <1>2 DEF DiskInv, DiskTypeOK, RowsInOrder
  <1>7. \A q \in Packages, r \in RuleIDs : <<q, r>> \in RowKeys
    BY DEF RowKeys
  <1>8. AbsentIsEmpty'
    BY <1>1, <1>2, <1>7 DEF DiskInv, AbsentIsEmpty
  <1>9. PackageTypeOK'
    BY <1>1, <1>3 DEF PackageTypeOK
  <1>10. BuriedRows'
    BY <1>1, <1>2 DEF BuriedRows, PackageTypeOK
  <1>11. \A r \in DOMAIN rules : KeyOf(r) \in RowKeys
    BY DEF MemoryInv, MemoryTypeOK, MemoryRule, RowKeys, KeyOf
  <1>12. \A r \in DOMAIN owners : <<owners[r], r>> \in RowKeys /\ r \in RuleIDs
    BY DEF MemoryInv, MemoryTypeOK, RowKeys
  <1>13. histories \in [RuleIDs -> SUBSET Version]
    BY DEF MemoryInv, MemoryTypeOK
  <1>14. CASE UNCHANGED <<present, packages, histories, rules, owners, deleted, doomed>>
    <2>1. MemoryInv' /\ DeletedStayDeleted'
      BY <1>1, <1>14 DEF MemoryInv, MemoryTypeOK, MemoryOwned, DownIsEmpty, DeletedStayDeleted,
         InMemory
    <2>2. NewestInMemory'
      <3>1. \A r \in DOMAIN rules : KeyOf(r)' = KeyOf(r)
        BY <1>14 DEF KeyOf
      <3>. QED BY <1>4, <1>11, <1>14, <3>1 DEF NewestInMemory
    <2>3. VersionsKnown'
      BY <1>4, <1>12, <1>14 DEF VersionsKnown
    <2>. QED BY <1>6, <1>8, <1>9, <1>10, <2>1, <2>2, <2>3 DEF DiskInv
  <1>15. CASE /\ packages' = packages \ {p}
              /\ rules' = Restrict(rules, DOMAIN rules \ gone)
              /\ histories' = HistoriesWithout(gone)
              /\ owners' = Restrict(owners, DOMAIN owners \ gone)
    <2>1. /\ DOMAIN rules' = DOMAIN rules \ gone
          /\ \A r \in DOMAIN rules' : rules'[r] = rules[r]
      BY <1>15 DEF Restrict
    <2>2. /\ DOMAIN owners' = DOMAIN owners \ gone
          /\ \A r \in DOMAIN owners' : owners'[r] = owners[r]
      BY <1>15 DEF Restrict
    <2>3. /\ histories' \in [RuleIDs -> SUBSET Version]
          /\ \A r \in RuleIDs \ gone : histories'[r] = histories[r]
      BY <1>13, <1>15 DEF HistoriesWithout
    <2>4. MemoryInv'
      BY <1>1, <1>15, <2>2, <2>3, ForgetKeeps
    <2>5. NewestInMemory'
      <3>1. \A r \in DOMAIN rules' : KeyOf(r)' = KeyOf(r)
        BY <2>1 DEF KeyOf
      <3>. QED BY <1>4, <1>11, <2>1, <3>1 DEF NewestInMemory
    <2>6. VersionsKnown'
      BY <1>4, <1>12, <1>15, <2>2, <2>3 DEF VersionsKnown
    <2>7. DeletedStayDeleted'
      BY <1>1, <2>1 DEF DeletedStayDeleted, InMemory
    <2>. QED BY <1>6, <1>8, <1>9, <1>10, <2>4, <2>5, <2>6, <2>7 DEF DiskInv
  <1>. QED BY <1>1, <1>14, <1>15
----------------------------------------------------------------------------
(* Starting.                                                                *)

LEMMA ImportedIsRow ==
    ASSUME NEW file \in LegacyFile
    PROVE  /\ ImportedRow(file) \in Row
           /\ \E w \in ImportedRow(file).versions : w.version = ImportedRow(file).current
           /\ \A w \in ImportedRow(file).versions : w.version = ImportedRow(file).current
  <1> DEFINE w == [version |-> file.version, content |-> file.content]
  <1>1. w \in Version /\ file.version \in 0..MaxVersion
    BY DEF LegacyFile, Version
  <1>2. ImportedRow(file).versions = {w} /\ ImportedRow(file).current = file.version
    BY DEF ImportedRow
  <1>3. ImportedRow(file) \in Row
    BY <1>1 DEF ImportedRow, Row
  <1>. QED BY <1>2, <1>3

LEMMA ImportKeeps ==
    ASSUME StoreInv, NEW readable \in SUBSET Packages, ImportLegacyFile(readable) PROVE StoreInv'
  <1> USE DEF StoreInv
  <1>1. PICK file \in LegacyFile : legacy = <<file>>
    BY DEF ImportLegacyFile, DiskInv, DiskTypeOK
  <1> DEFINE k == <<Local, file.rule>>
  <1>2. /\ ~up /\ Local \in present /\ legacy' \in {NoFile, legacy}
        /\ UNCHANGED <<present, up, memoryVars, saving, acts>>
        /\ \/ rows' = [rows EXCEPT ![k] = ImportedRow(file)] /\ buried' = buried \ {k}
           \/ UNCHANGED <<rows, buried>>
    BY <1>1 DEF ImportLegacyFile
  <1>3. k \in RowKeys
    BY RuleStoreAssumption DEF LegacyFile, RowKeys
  <1>4. /\ ImportedRow(file) \in Row
        /\ \E w \in ImportedRow(file).versions : w.version = ImportedRow(file).current
        /\ \A w \in ImportedRow(file).versions : w.version = ImportedRow(file).current
    BY ImportedIsRow
  <1> HIDE DEF k
  <1>5. /\ rows' \in [RowKeys -> Row]
        /\ \A j \in RowKeys : rows'[j] = rows[j] \/ (j = k /\ rows'[j] = ImportedRow(file))
        /\ buried' \subseteq buried /\ (k \in buried' => rows'[k] = rows[k])
    BY <1>2, <1>3, <1>4 DEF DiskInv, DiskTypeOK
  <1>6. DiskTypeOK'
    BY <1>1, <1>2, <1>5 DEF DiskInv, DiskTypeOK
  <1>7. RowsInOrder'
    <2>1. ImportedRow(file).current \in Int
      BY <1>4 DEF Row
    <2>. QED BY <1>4, <1>5, <2>1 DEF DiskInv, RowsInOrder
  <1>8. AbsentIsEmpty'
    <2>1. \A p \in Packages, r \in RuleIDs :
            <<p, r>> \in RowKeys /\ (<<p, r>> = k => p = Local)
      BY DEF RowKeys, k
    <2>. QED BY <1>2, <1>5, <2>1 DEF DiskInv, AbsentIsEmpty
  <1>9. DOMAIN rules = {} /\ DOMAIN owners = {} /\ UNCHANGED <<rules, owners>>
    BY <1>2 DEF MemoryInv, DownIsEmpty, memoryVars
  <1>10. MemoryInv'
    BY <1>2, <1>9 DEF MemoryInv, MemoryTypeOK, MemoryOwned, DownIsEmpty, memoryVars
  <1>11. PackageTypeOK'
    BY <1>2, <1>5 DEF PackageTypeOK, memoryVars
  <1>12. NewestInMemory' /\ VersionsKnown' /\ DeletedStayDeleted'
    BY <1>9 DEF NewestInMemory, VersionsKnown, DeletedStayDeleted, InMemory
  <1>13. BuriedRows'
    BY <1>5 DEF BuriedRows, PackageTypeOK
  <1>. QED BY <1>6, <1>7, <1>8, <1>10, <1>11, <1>12, <1>13 DEF DiskInv

LEMMA OwnerIsRead ==
    ASSUME NEW r, NEW read, \E p \in read : rows[<<p, r>>] # NoRow
    PROVE  OwnerOf(r, read) \in read /\ rows[<<OwnerOf(r, read), r>>] # NoRow
  BY DEF OwnerOf

LEMMA LoadKeeps ==
    ASSUME StoreInv, NEW readable \in SUBSET Packages, NEW read \in SUBSET readable,
           LoadRules(readable, read)
    PROVE  StoreInv'
  <1> USE DEF StoreInv
  <1> DEFINE loaded == {r \in RuleIDs : \E p \in read : rows[<<p, r>>] # NoRow}
             owned == [r \in loaded |-> OwnerOf(r, read)]
  <1>1. /\ up' /\ packages' = readable /\ readable \subseteq present /\ doomed' = {}
        /\ rules' = [r \in Effective(owned) |-> RuleOf(owned[r], rows[<<owned[r], r>>])]
        /\ histories' = [r \in RuleIDs |->
                IF r \in loaded THEN rows[<<owned[r], r>>].versions ELSE {}]
        /\ owners' = owned
        /\ UNCHANGED <<diskVars, saving, buried>>
    BY DEF LoadRules
  <1>2. \A r \in loaded :
          /\ r \in RuleIDs /\ owned[r] \in Packages /\ owned[r] \in readable
          /\ rows[<<owned[r], r>>] # NoRow /\ <<owned[r], r>> \in RowKeys
    BY OwnerIsRead DEF RowKeys
  <1>3. Effective(owned) = {r \in loaded : ~rows[<<owned[r], r>>].deleted}
    BY DEF Effective
  <1>4. DOMAIN owned = loaded
    OBVIOUS
  <1> HIDE DEF loaded, owned
  <1>5. \A r \in loaded : RuleOf(owned[r], rows[<<owned[r], r>>]) \in MemoryRule
    <2> SUFFICES ASSUME NEW r \in loaded
                 PROVE  RuleOf(owned[r], rows[<<owned[r], r>>]) \in MemoryRule
      OBVIOUS
    <2>1. rows[<<owned[r], r>>] \in Row
      BY <1>2 DEF DiskInv, DiskTypeOK
    <2>2. \E w \in rows[<<owned[r], r>>].versions : w.version = rows[<<owned[r], r>>].current
      BY <1>2 DEF DiskInv, RowsInOrder
    <2>. QED BY <1>2, <2>1, <2>2, RuleOfRow
  <1>6. DOMAIN rules' = Effective(owned) /\ DOMAIN owners' = loaded
    BY <1>1, <1>4
  <1>7. \A r \in DOMAIN rules' :
          /\ r \in loaded /\ rules'[r] \in MemoryRule /\ rules'[r].package = owned[r]
          /\ rules'[r].version = rows[<<owned[r], r>>].current
    BY <1>1, <1>3, <1>5, <1>6 DEF RuleOf
  <1>8. histories' \in [RuleIDs -> SUBSET Version]
    BY <1>1, <1>2 DEF DiskInv, DiskTypeOK, Row
  <1>9. DiskInv' /\ BuriedRows'
    BY <1>1 DEF diskVars, DiskInv, DiskTypeOK, RowsInOrder, AbsentIsEmpty, BuriedRows
  <1>10. MemoryInv'
    BY <1>1, <1>2, <1>6, <1>7, <1>8 DEF MemoryInv, MemoryTypeOK, MemoryOwned, DownIsEmpty
  <1>11. PackageTypeOK'
    BY <1>1 DEF PackageTypeOK, diskVars
  <1>12. NewestInMemory'
    BY <1>1, <1>2, <1>7 DEF NewestInMemory, KeyOf, diskVars, DiskInv, RowsInOrder
  <1>13. VersionsKnown'
    BY <1>1, <1>2, <1>6 DEF VersionsKnown, diskVars
  <1>14. DeletedStayDeleted'
    <2> SUFFICES ASSUME NEW j \in buried, j[2] \in DOMAIN rules', rules'[j[2]].package = j[1]
                 PROVE  FALSE
      BY <1>1 DEF DeletedStayDeleted, InMemory
    <2>1. j = <<owned[j[2]], j[2]>>
      <3>1. j \in Packages \X RuleIDs
        BY DEF PackageTypeOK, RowKeys
      <3>2. j = <<j[1], j[2]>>
        BY <3>1
      <3>. QED BY <1>7, <3>2
    <2>2. rows[j] # NoRow /\ ~rows[j].deleted
      BY <1>2, <1>3, <1>6, <1>7, <2>1
    <2>. QED BY <2>2 DEF BuriedRows
  <1>. QED BY <1>9, <1>10, <1>11, <1>12, <1>13, <1>14
----------------------------------------------------------------------------
LEMMA StoreStep == StoreInv /\ [RuleStoreNext]_storeVars => StoreInv'
  <1> SUFFICES ASSUME StoreInv, [RuleStoreNext]_storeVars PROVE StoreInv'
    OBVIOUS
  <1>1. CASE UNCHANGED storeVars
    <2>1. /\ UNCHANGED <<present, rows, legacy, up, packages, rules, histories, owners, buried,
                         doomed, saving>>
      BY <1>1 DEF storeVars, diskVars, memoryVars
    <2>2. /\ legacy = NoFile \/ (\E file \in LegacyFile : legacy = <<file>>)
          /\ doomed \in SUBSET (Packages \ {Local}) /\ saving \in Saving
      BY DEF StoreInv, DiskInv, DiskTypeOK, PackageTypeOK
    <2>. QED BY <2>1, <2>2, OthersKeep
  <1>2. CASE \/ \E p \in Packages : MarkPackage(p)
             \/ BeginSaveRules
             \/ EndSaveRules
             \/ \E r \in RuleIDs, v \in 1..MaxVersion, c \in Contents :
                   DropLegacyFile([rule |-> r, version |-> v, content |-> c])
    BY <1>2, RequestsKeep
  <1>3. CASE \E readable \in SUBSET Packages :
               \/ ImportLegacyFile(readable)
               \/ \E read \in SUBSET readable : LoadRules(readable, read)
    BY <1>3, ImportKeeps, LoadKeeps
  <1>4. CASE Stop
    BY <1>4, StopKeeps
  <1>5. ASSUME NEW r \in RuleIDs, NEW c \in Contents, EditRule(r, c) \/ ApiUpdate(r, c)
        PROVE  StoreInv'
    BY <1>5, EditKeeps, ApiUpdateKeeps
  <1>6. ASSUME NEW r \in RuleIDs, NEW p \in Packages, NEW c \in Contents,
               CreateRule(r, p, c) \/ ApiCreate(r, p, c)
        PROVE  StoreInv'
    BY <1>6, CreateRuleKeeps, ApiCreateKeeps
  <1>7. ASSUME NEW r \in RuleIDs, NEW q \in RuleIDs, NEW p \in Packages, DuplicateRule(q, r, p)
        PROVE  StoreInv'
    BY <1>7, DuplicateRuleKeeps
  <1>8. ASSUME NEW r \in RuleIDs, DiscardRule(r) \/ DeleteRule(r) \/ SaveNext(r) PROVE StoreInv'
    BY <1>8, DiscardKeeps, DeleteKeeps, SaveNextKeeps
  <1>9. ASSUME NEW p \in Packages, CreatePackage(p) \/ DeleteNextPackage(p) PROVE StoreInv'
    BY <1>9, CreatePackageKeeps, DeletePackageKeeps
  <1>. QED BY <1>1, <1>2, <1>3, <1>4, <1>5, <1>6, <1>7, <1>8, <1>9 DEF RuleStoreNext

LEMMA StoreInvariant == RuleStoreSpec => []StoreInv
  BY StoreInitially, StoreStep, PTL DEF RuleStoreSpec

\* Whatever is edited, saved, deleted, imported or requested, and wherever the
\* program ends, memory knows every version of a rule that it loaded or saved
\* (GetRuleVersion finds what a saved game names).
THEOREM HistoriesComplete == RuleStoreSpec => []VersionsKnown
  <1>1. StoreInv => VersionsKnown
    BY DEF StoreInv
  <1>. QED BY StoreInvariant, <1>1, PTL

\* A rule that was deleted does not come back into effect, by a save, a request
\* or a start (MarkRuleDeleted, LoadPackageRules).
THEOREM DeletionLasts == RuleStoreSpec => []DeletedStayDeleted
  <1>1. StoreInv => DeletedStayDeleted
    BY DEF StoreInv
  <1>. QED BY StoreInvariant, <1>1, PTL
----------------------------------------------------------------------------
(* The refinement: each step of the store is one of the ledger's, or none.  *)

Committed == [k \in RowKeys |-> rows[k].versions]

LEMMA LedgerStutters ==
    ASSUME StoreInv, \A k \in RowKeys : rows'[k].versions = rows[k].versions
    PROVE  Committed' = Committed
  BY DEF Committed

\* A transaction is a commit.
LEMMA SavedCommits ==
    ASSUME StoreInv, NEW r \in RuleIDs, NEW p \in Packages, NEW w \in Version,
           Saved(r, p, w), Fits(r, p, w)
    PROVE  Ledger!LedgerNext
  <1> DEFINE k == <<p, r>>
  <1>1. k \in RowKeys
    BY DEF RowKeys
  <1>2. /\ rows'[k].versions = rows[k].versions \cup {w}
        /\ \A j \in RowKeys : j # k => rows'[j] = rows[j]
    BY SavedRow
  <1>3. Committed' = [Committed EXCEPT ![k] = @ \cup {w}]
    <2>1. \A j \in RowKeys : Committed'[j] = [Committed EXCEPT ![k] = @ \cup {w}][j]
      BY <1>1, <1>2 DEF Committed
    <2>. QED BY <2>1 DEF Committed
  <1>4. \A v \in rows[k].versions : w.version > v.version
    <2>1. \A v \in rows[k].versions : v \in Version
      BY <1>1 DEF StoreInv, DiskInv, DiskTypeOK, Row
    <2>. QED BY <2>1 DEF Fits, Version
  <1>5. Ledger!Newer(k, w.version)
    BY <1>1, <1>4 DEF Ledger!Newer
  <1>6. w \in Ledger!Version /\ k \in Ledger!Keys
    BY <1>1 DEF Ledger!Version, Version, Ledger!Keys, RowKeys
  <1>7. Ledger!Commit(k)
    BY <1>3, <1>5, <1>6 DEF Ledger!Commit, Committed
  <1>. QED BY <1>6, <1>7 DEF Ledger!LedgerNext

\* SaveRule through each of its callers.
LEMMA SavesCommit ==
    ASSUME StoreInv, NEW r \in RuleIDs,
           \/ SaveNext(r)
           \/ \E c \in Contents : ApiUpdate(r, c)
           \/ \E q \in Packages, c \in Contents : ApiCreate(r, q, c)
    PROVE  Ledger!LedgerNext \/ Committed' = Committed
  <1>1. ASSUME NEW c \in Contents, CanSave(r),
               Saved(r, rules[r].package, [version |-> NextVersion(r), content |-> c])
        PROVE  Ledger!LedgerNext
    <2> DEFINE w == [version |-> NextVersion(r), content |-> c]
    <2>1. w \in Version
      BY <1>1, NextIsVersion
    <2>2. rules[r].package \in Packages
      BY <1>1 DEF CanSave, InMemory, StoreInv, MemoryInv, MemoryTypeOK, MemoryRule
    <2>3. Fits(r, rules[r].package, w)
      BY <1>1, <2>1, NextVersionFits
    <2>. HIDE DEF w
    <2>. QED BY <1>1, <2>1, <2>2, <2>3, SavedCommits DEF w
  <1>2. CASE SaveNext(r)
    <2>1. CASE CanSave(r) /\ Saved(r, rules[r].package,
                   [version |-> NextVersion(r), content |-> rules[r].content])
      <3>1. rules[r].content \in Contents
        BY <2>1 DEF CanSave, InMemory, StoreInv, MemoryInv, MemoryTypeOK, MemoryRule
      <3>. QED BY <1>1, <2>1, <3>1
    <2>2. CASE rows' = rows
      BY <2>2, LedgerStutters
    <2>. QED BY <1>2, <2>1, <2>2 DEF SaveNext
  <1>3. ASSUME NEW c \in Contents, ApiUpdate(r, c) PROVE Ledger!LedgerNext
    BY <1>1, <1>3 DEF ApiUpdate
  <1>4. ASSUME NEW q \in Packages, NEW c \in Contents, ApiCreate(r, q, c) PROVE Ledger!LedgerNext
    <2> DEFINE w == [version |-> 1, content |-> c]
    <2>1. w \in Version
      BY RuleStoreAssumption DEF Version
    <2>2. PackageFor(q) \in Packages
      BY PackageForNew
    <2>3. Fits(r, PackageFor(q), w)
      BY <1>4, <2>1, <2>2, NewRuleFits DEF ApiCreate
    <2>. HIDE DEF w
    <2>. QED BY <1>4, <2>1, <2>2, <2>3, SavedCommits DEF ApiCreate, w
  <1>. QED BY <1>2, <1>3, <1>4

\* A newer file supersedes what the local package has.
LEMMA ImportSupersedes ==
    ASSUME StoreInv, NEW readable \in SUBSET Packages, ImportLegacyFile(readable)
    PROVE  Ledger!LedgerNext \/ Committed' = Committed
  <1>1. PICK file \in LegacyFile : legacy = <<file>>
    BY DEF ImportLegacyFile, StoreInv, DiskInv, DiskTypeOK
  <1> DEFINE k == <<Local, file.rule>>
             w == [version |-> file.version, content |-> file.content]
  <1>2. k \in RowKeys /\ w \in Version
    BY RuleStoreAssumption DEF LegacyFile, RowKeys, Version
  <1>3. CASE Imports(file, readable) /\ rows' = [rows EXCEPT ![k] = ImportedRow(file)]
    <2>1. ImportedRow(file).versions = {w}
      BY DEF ImportedRow
    <2>2. rows \in [RowKeys -> Row]
      BY DEF StoreInv, DiskInv, DiskTypeOK
    <2>3. Committed' = [Committed EXCEPT ![k] = {w}]
      <3>1. \A j \in RowKeys : rows'[j].versions = IF j = k THEN {w} ELSE rows[j].versions
        BY <1>2, <1>3, <2>1, <2>2
      <3>. QED BY <3>1 DEF Committed
    <2>4. \A v \in rows[k].versions : w.version > v.version
      <3>1. CASE rows[k] = NoRow
        BY <3>1 DEF NoRow
      <3>2. CASE rows[k] # NoRow
        <4>1. w.version > rows[k].current
          BY <1>3, <3>2 DEF Imports
        <4>2. \A v \in rows[k].versions : v \in Version /\ v.version <= rows[k].current
          BY <1>2, <2>2, <3>2 DEF StoreInv, DiskInv, RowsInOrder, Row
        <4>3. rows[k].current \in Int /\ w.version \in Int
          BY <1>2, <2>2 DEF Row, Version
        <4>. QED BY <4>1, <4>2, <4>3 DEF Version
      <3>. QED BY <3>1, <3>2
    <2>5. Ledger!Newer(k, w.version) /\ w \in Ledger!Version /\ k \in Ledger!Keys
      BY <1>2, <2>4 DEF Ledger!Newer, Ledger!Version, Version, Ledger!Keys, RowKeys
    <2>6. Ledger!Supersede(k)
      BY <2>3, <2>5 DEF Ledger!Supersede, Committed
    <2>. QED BY <2>5, <2>6 DEF Ledger!LedgerNext
  <1>4. CASE rows' = rows
    BY <1>4, LedgerStutters
  <1>. QED BY <1>1, <1>3, <1>4 DEF ImportLegacyFile

\* A package's rows go together.
LEMMA DeletionWithdraws ==
    ASSUME StoreInv, NEW p \in Packages, DeleteNextPackage(p)
    PROVE  Ledger!LedgerNext \/ Committed' = Committed
  <1>1. p # Local
    BY DEF DeleteNextPackage, StoreInv, PackageTypeOK, Saving
  <1>2. CASE rows' = [k \in RowKeys |-> IF k[1] = p THEN NoRow ELSE rows[k]]
    <2>1. Committed' = [k \in RowKeys |-> IF k[1] = p THEN {} ELSE Committed[k]]
      BY <1>2 DEF Committed, NoRow
    <2>2. Ledger!Withdraw(p)
      BY <1>1, <2>1 DEF Ledger!Withdraw, Ledger!Keys, RowKeys, Committed
    <2>. QED BY <2>2 DEF Ledger!LedgerNext
  <1>3. CASE rows' = rows
    BY <1>3, LedgerStutters
  <1>. QED BY <1>2, <1>3 DEF DeleteNextPackage

LEMMA LedgerStep ==
    StoreInv /\ [RuleStoreNext]_storeVars => [Ledger!LedgerNext]_Committed
  <1> SUFFICES ASSUME StoreInv, [RuleStoreNext]_storeVars
               PROVE  Ledger!LedgerNext \/ Committed' = Committed
    OBVIOUS
  <1>1. ASSUME rows' = rows PROVE Committed' = Committed
    BY <1>1, LedgerStutters
  <1>2. CASE UNCHANGED storeVars
    BY <1>1, <1>2 DEF storeVars, diskVars
  <1>3. ASSUME NEW r \in RuleIDs, NEW v \in 1..MaxVersion, NEW c \in Contents,
               DropLegacyFile([rule |-> r, version |-> v, content |-> c])
        PROVE  Committed' = Committed
    BY <1>1, <1>3 DEF DropLegacyFile
  <1>4. ASSUME NEW readable \in SUBSET Packages,
               \/ ImportLegacyFile(readable)
               \/ \E read \in SUBSET readable : LoadRules(readable, read)
        PROVE  Ledger!LedgerNext \/ Committed' = Committed
    BY <1>1, <1>4, ImportSupersedes DEF LoadRules, diskVars
  <1>5. CASE Stop \/ BeginSaveRules \/ EndSaveRules
    BY <1>1, <1>5 DEF Stop, BeginSaveRules, EndSaveRules, diskVars
  <1>6. ASSUME NEW r \in RuleIDs, NEW c \in Contents, EditRule(r, c)
        PROVE  Committed' = Committed
    BY <1>1, <1>6 DEF EditRule, diskVars
  <1>7. ASSUME NEW r \in RuleIDs, NEW p \in Packages, NEW c \in Contents, CreateRule(r, p, c)
        PROVE  Committed' = Committed
    BY <1>1, <1>7 DEF CreateRule, diskVars
  <1>8. ASSUME NEW r \in RuleIDs, NEW q \in RuleIDs, NEW p \in Packages, DuplicateRule(q, r, p)
        PROVE  Committed' = Committed
    BY <1>1, <1>8 DEF DuplicateRule, diskVars
  <1>9. ASSUME NEW r \in RuleIDs, DiscardRule(r) \/ DeleteRule(r) PROVE Committed' = Committed
    BY <1>1, <1>9, DeletedRow, LedgerStutters DEF DiscardRule, diskVars
  <1>10. ASSUME NEW p \in Packages, CreatePackage(p) \/ MarkPackage(p) PROVE Committed' = Committed
    BY <1>1, <1>10 DEF CreatePackage, MarkPackage, diskVars
  <1>. QED BY <1>2, <1>3, <1>4, <1>5, <1>6, <1>7, <1>8, <1>9, <1>10, SavesCommit,
              DeletionWithdraws DEF RuleStoreNext

LEMMA LedgerInitially == RuleStoreInit => Ledger!LedgerInit
  <1> SUFFICES ASSUME RuleStoreInit PROVE Committed \in [RowKeys -> SUBSET Version]
    BY DEF Ledger!LedgerInit, Ledger!Keys, Ledger!Version, Version, RowKeys, Committed
  <1>. QED BY DEF RuleStoreInit, NoRow, Committed

\* The store implements the ledger that saved games rely on: crashes, failures,
\* imports and requests included, a committed version keeps its content, new
\* ones are newer than all, and none is lost but with its package or for a newer
\* history of the local one.
THEOREM StoreImplementsLedger == RuleStoreSpec => LedgerKept
  <1>1. RuleStoreInit => Ledger!LedgerInit
    BY LedgerInitially
  <1>2. StoreInv /\ [RuleStoreNext]_storeVars
          => [Ledger!LedgerNext]_([k \in RowKeys |-> rows[k].versions])
    BY LedgerStep DEF Committed
  <1>. QED BY <1>1, <1>2, StoreInvariant, PTL DEF RuleStoreSpec, LedgerKept, Ledger!LedgerSpec
=============================================================================
