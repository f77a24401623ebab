------------------------------ MODULE RuleStore ------------------------------
(***************************************************************************)
(* The rules of EDF in memory and on disk (RuleManager in src/Rule.cpp,    *)
(* src/RulePackageStore.cpp) and the requests of other plugins that change *)
(* them (src/EDFAPI.cpp).  A package is a directory with a database; every *)
(* save of a rule is one transaction that adds a version; deletion of a    *)
(* rule is logical, so that the versions stay known to the saved games.    *)
(* Any operation on the disk may fail, and the program may end between two.*)
(*                                                                         *)
(* A new identifier is a UUID; yet an import may give the local package a  *)
(* rule that a package has which could not be opened.                      *)
(***************************************************************************)
EXTENDS Integers, Functions

CONSTANTS
    RuleIDs, Packages, Local,
    Contents,    \* what the author writes in a rule
    MaxVersion,  \* bound: versions of a rule
    MaxActs      \* bound: edits, saves, requests and starts of the program

ASSUME RuleStoreAssumption ==
    Local \in Packages /\ MaxVersion \in Nat \ {0} /\ MaxActs \in Nat

VARIABLES
    present,   \* packages on disk that can be opened
    rows,      \* per package and rule, its row in the database, or NoRow
    legacy,    \* the JSON file of a rule in the legacy directory, or NoFile
    imports,   \* legacy_imports: per rule, the file that was last imported
    up,        \* the program runs
    packages,  \* RulePackageStore::_packages
    rules,     \* RuleManager::_rules, by identifier
    histories, \* _ruleHistories: per rule, the versions known
    owners,    \* _ruleOwners: the package of a rule, by identifier
    deleted,   \* _deletedRuleIDs
    doomed,    \* _packagesToDelete
    saving,    \* what SaveRules has still to do
    buried,    \* history: packages and rules whose deletion was reported as done
    acts       \* counter of the bound

diskVars == <<present, rows, legacy, imports>>
memoryVars == <<packages, rules, histories, owners, deleted, doomed>>
storeVars == <<diskVars, up, memoryVars, saving, buried, acts>>
----------------------------------------------------------------------------
RowKeys == Packages \X RuleIDs
Version == [version : 1..MaxVersion, content : Contents]
NoRow == [current |-> 0, deleted |-> FALSE, versions |-> {}]
NotSaving == [on |-> FALSE, save |-> {}, delete |-> {}, failed |-> FALSE]
NoFile == <<>>

\* The map f with the entry x |-> y.
With(f, x, y) == [z \in DOMAIN f \cup {x} |-> IF z = x THEN y ELSE f[z]]

InMemory(r) == r \in DOMAIN rules
KeyOf(r) == <<rules[r].package, r>>
Ready == up /\ ~saving.on
Act == acts < MaxActs /\ acts' = acts + 1

RuleStoreInit ==
    /\ present = {Local}
    /\ rows = [k \in RowKeys |-> NoRow]
    /\ legacy = NoFile /\ imports = [r \in RuleIDs |-> NoFile]
    /\ up = FALSE
    /\ packages = {} /\ rules = <<>> /\ histories = [r \in RuleIDs |-> {}]
    /\ owners = <<>> /\ deleted = {} /\ doomed = {}
    /\ saving = NotSaving
    /\ buried = {} /\ acts = 0
----------------------------------------------------------------------------
(* Starting: Load imports the legacy files, then reads the packages.       *)

\* ImportLegacyFile: a file that was imported is only moved away; a rule of
\* another package that can be opened, of another source or not older than the
\* file stays as it is.
Imports(file, readable) ==
    /\ imports[file.rule] # <<file>>
    /\ \A p \in readable \ {Local} : rows[<<p, file.rule>>] = NoRow
    /\ LET row == rows[<<Local, file.rule>>]
       IN row # NoRow => imports[file.rule] # NoFile /\ file.version > row.current

ImportedRow(file) ==
    [current |-> file.version, deleted |-> FALSE,
     versions |-> {[version |-> file.version, content |-> file.content]}]

\* The user puts the file of a rule into the legacy directory.
DropLegacyFile(file) ==
    /\ Act /\ ~up /\ legacy = NoFile
    /\ legacy' = <<file>>
    /\ UNCHANGED <<present, rows, imports, up, memoryVars, saving, buried>>

\* The import of a file commits before the file is moved to the backups; when
\* the move fails, the next start tries it again.  Packages that cannot be
\* opened at that moment are not asked for the rule.
ImportLegacyFile(readable) ==
    /\ ~up /\ legacy # NoFile
    /\ readable \subseteq present /\ Local \in readable
    /\ LET file == legacy[1]
           k == <<Local, file.rule>>
       IN IF Imports(file, readable)
          THEN /\ rows' = [rows EXCEPT ![k] = ImportedRow(file)]
               /\ imports' = [imports EXCEPT ![file.rule] = legacy]
               /\ buried' = buried \ {k}
          ELSE UNCHANGED <<rows, imports, buried>>
    /\ legacy' = NoFile \/ (legacy' = legacy /\ rows' # rows)
    /\ UNCHANGED <<present, up, memoryVars, saving, acts>>

\* The package a rule is read from, of those that have it: the local one first
\* (CHOOSE stands for the order of their identifiers).
OwnerOf(r, read) ==
    LET having == {p \in read : rows[<<p, r>>] # NoRow}
    IN IF Local \in having THEN Local ELSE CHOOSE p \in having : TRUE

\* Mutant: a logically deleted rule is loaded like the others.
EffectiveAll(owned) == DOMAIN owned

\* Logically deleted rules have their history loaded, but are not in effect.
Effective(owned) == {r \in DOMAIN owned : ~rows[<<owned[r], r>>].deleted}

CurrentContent(row) == (CHOOSE w \in row.versions : w.version = row.current).content

\* A rule as it was last saved.
RuleOf(p, row) ==
    [package |-> p, version |-> row.current, content |-> CurrentContent(row),
     saved |-> <<CurrentContent(row)>>]

\* LoadRules: the packages that can be opened, and of these the rules of the
\* ones that are read.  Without the local package nothing is loaded at all.
LoadRules(readable, read) ==
    /\ Act /\ ~up
    /\ readable \subseteq present /\ read \subseteq readable
    /\ Local \notin readable => read = {}
    /\ up' = TRUE
    /\ packages' = readable
    /\ LET loaded == {r \in RuleIDs : \E p \in read : rows[<<p, r>>] # NoRow}
           owned == [r \in loaded |-> OwnerOf(r, read)]
       IN /\ rules' = [r \in Effective(owned) |-> RuleOf(owned[r], rows[<<owned[r], r>>])]
          /\ histories' = [r \in RuleIDs |->
                IF r \in loaded THEN rows[<<owned[r], r>>].versions ELSE {}]
          /\ owners' = owned
          /\ deleted' = loaded \ Effective(owned)
    /\ doomed' = {}
    /\ UNCHANGED <<diskVars, saving, buried>>

\* The program ends, in the middle of SaveRules or not.
Stop ==
    /\ up /\ up' = FALSE
    /\ packages' = {} /\ rules' = <<>> /\ histories' = [r \in RuleIDs |-> {}]
    /\ owners' = <<>> /\ deleted' = {} /\ doomed' = {}
    /\ saving' = NotSaving
    /\ UNCHANGED <<diskVars, buried, acts>>
----------------------------------------------------------------------------
(* Saving one rule (RulePackageStore::SaveRule), one transaction.          *)

NextVersion(r) == rules[r].version + 1

\* The transaction may go through: the package is known and on disk, and its
\* database has no version of that number.
CanSave(r) ==
    /\ InMemory(r) /\ rules[r].package \in packages \cap present
    /\ NextVersion(r) <= MaxVersion
    /\ \A w \in rows[KeyOf(r)].versions : w.version # NextVersion(r)

\* Mutant: the history of a rule in memory is that of its last save.
HistoryReplaced(r, w) == [histories EXCEPT ![r] = {w}]

\* The new version joins the history in memory.
HistoryWith(r, w) ==
    [histories EXCEPT ![r] = {h \in @ : h.version # w.version} \cup {w}]

\* Version w of the rule r of package p is committed, then memory follows; the
\* row is no longer marked as deleted.
Saved(r, p, w) ==
    LET k == <<p, r>>
        row == [current |-> w.version, deleted |-> FALSE,
                versions |-> rows[k].versions \cup {w}]
    IN /\ rows' = [rows EXCEPT ![k] = row]
       /\ rules' = With(rules, r, RuleOf(p, row))
       /\ histories' = HistoryWith(r, w)
       /\ owners' = With(owners, r, p)
----------------------------------------------------------------------------
(* The editor.                                                             *)

EditRule(r, content) ==
    /\ Act /\ Ready /\ InMemory(r)
    /\ rules[r].content # content
    /\ rules' = [rules EXCEPT ![r].content = content]
    /\ UNCHANGED <<diskVars, up, packages, histories, owners, deleted, doomed, saving, buried>>

NewRule(p, content) == [package |-> p, version |-> 0, content |-> content, saved |-> <<>>]

\* An identifier that no rule has or had (a UUID).
Unused(r) ==
    /\ \A k \in buried : k[2] # r
    /\ r \notin DOMAIN owners /\ imports[r] = NoFile /\ (legacy # NoFile => legacy[1].rule # r)
    /\ \A p \in Packages : rows[<<p, r>>] = NoRow

\* CreateRule: for a package that is not there, or that is to be deleted, the
\* rule goes to the local one.
PackageFor(p) == IF p \in packages \ doomed THEN p ELSE Local

CreateRule(r, p, content) ==
    /\ Act /\ Ready /\ Unused(r)
    /\ rules' = With(rules, r, NewRule(PackageFor(p), content))
    /\ owners' = With(owners, r, PackageFor(p))
    /\ UNCHANGED <<diskVars, up, packages, histories, deleted, doomed, saving, buried>>

\* DuplicateRule copies what the author wrote, and none of the history.
DuplicateRule(source, r, p) ==
    /\ Act /\ Ready /\ InMemory(source) /\ Unused(r)
    /\ p \in packages \ doomed
    /\ rules' = With(rules, r, NewRule(p, rules[source].content))
    /\ owners' = With(owners, r, p)
    /\ histories' = [histories EXCEPT ![r] = {}]
    /\ UNCHANGED <<diskVars, up, packages, deleted, doomed, saving, buried>>

CreatePackage(p) ==
    /\ Act /\ Ready /\ p \notin present
    /\ present' = present \cup {p} /\ packages' = packages \cup {p}
    /\ UNCHANGED <<rows, legacy, imports, up, rules, histories, owners, deleted, doomed,
                   saving, buried>>

\* MarkPackageForDeletion and CancelPackageDeletion.
MarkPackage(p) ==
    /\ Act /\ Ready
    /\ \/ p \in packages \ (doomed \cup {Local}) /\ doomed' = doomed \cup {p}
       \/ p \in doomed /\ doomed' = doomed \ {p}
    /\ UNCHANGED <<diskVars, up, packages, rules, histories, owners, deleted, saving, buried>>

\* What DeleteRule does to memory: a rule that was saved is remembered.
Forgotten(r) ==
    /\ rules' = Restrict(rules, DOMAIN rules \ {r})
    /\ IF rules[r].version > 0
       THEN /\ deleted' = deleted \cup {r}
            /\ UNCHANGED <<histories, owners>>
       ELSE /\ deleted' = deleted \ {r}
            /\ owners' = Restrict(owners, DOMAIN owners \ {r})
            /\ histories' = [histories EXCEPT ![r] = {}]

\* DeleteRule of a rule that was never saved.
DiscardRule(r) ==
    /\ Act /\ Ready /\ InMemory(r) /\ rules[r].version = 0
    /\ Forgotten(r)
    /\ UNCHANGED <<diskVars, up, packages, doomed, saving, buried>>

\* Mutant: the row goes, and the versions with it.
RowDeletedForGood(row) == NoRow

RowDeleted(row) == [row EXCEPT !.deleted = TRUE]

\* DeleteRule with MarkRuleDeleted, by the editor or by a request; when the
\* transaction fails, nothing changes.  (A row that a half deleted package lost
\* is not there to be marked.)
DeleteRule(r) ==
    /\ Act /\ Ready /\ InMemory(r) /\ rules[r].version > 0
    /\ rules[r].package \in packages \cap present
    /\ rows' = [rows EXCEPT ![KeyOf(r)] = IF @ = NoRow THEN NoRow ELSE RowDeleted(@)]
    /\ Forgotten(r)
    /\ buried' = buried \cup {KeyOf(r)}
    /\ UNCHANGED <<present, legacy, imports, up, packages, doomed, saving>>
----------------------------------------------------------------------------
(* SaveRules: every modified rule, then the deletion of packages.          *)

Modified(r) == rules[r].saved # <<rules[r].content>>

BeginSaveRules ==
    /\ Act /\ Ready
    /\ saving' = [on |-> TRUE, delete |-> doomed, failed |-> FALSE,
                  save |-> {r \in DOMAIN rules : Modified(r) /\ rules[r].package \notin doomed}]
    /\ UNCHANGED <<diskVars, up, memoryVars, buried>>

SaveNext(r) ==
    /\ saving.on /\ r \in saving.save
    /\ \/ /\ CanSave(r)
          /\ Saved(r, rules[r].package,
                   [version |-> NextVersion(r), content |-> rules[r].content])
          /\ saving' = [saving EXCEPT !.save = @ \ {r}]
       \/ /\ saving' = [saving EXCEPT !.save = @ \ {r}, !.failed = TRUE]
          /\ UNCHANGED <<rows, rules, histories, owners>>
    /\ UNCHANGED <<present, legacy, imports, up, packages, deleted, doomed, buried, acts>>

\* Packages are deleted only if every rule could be saved.
MayDeletePackages == saving.on /\ saving.save = {} /\ ~saving.failed

\* The histories of the rules of p that are in effect go with the package;
\* those of its logically deleted rules stay until the program ends.
HistoriesWithout(gone) == [r \in RuleIDs |-> IF r \in gone THEN {} ELSE histories[r]]

\* DeletePackage and what SaveRules forgets after it.  It may also fail, before
\* it removed the database or after it did.
DeleteNextPackage(p) ==
    /\ MayDeletePackages /\ p \in saving.delete
    /\ saving' = [saving EXCEPT !.delete = @ \ {p}]
    /\ rows' = [k \in RowKeys |-> IF k[1] = p THEN NoRow ELSE rows[k]] \/ rows' = rows
    /\ \/ /\ \A r \in RuleIDs : rows'[<<p, r>>] = NoRow
          /\ present' = present \ {p}
          /\ packages' = packages \ {p}
          /\ LET gone == {r \in DOMAIN rules : rules[r].package = p}
             IN /\ rules' = Restrict(rules, DOMAIN rules \ gone)
                /\ histories' = HistoriesWithout(gone)
                /\ owners' = Restrict(owners, DOMAIN owners \ gone)
                /\ deleted' = deleted \ gone
          /\ doomed' = doomed \ {p}
       \/ UNCHANGED <<present, packages, histories, rules, owners, deleted, doomed>>
    /\ UNCHANGED <<legacy, imports, up, buried, acts>>

EndSaveRules ==
    /\ saving.on /\ saving.save = {}
    /\ saving.failed \/ saving.delete = {}
    /\ saving' = NotSaving
    /\ UNCHANGED <<diskVars, up, memoryVars, buried, acts>>
----------------------------------------------------------------------------
(* Requests of other plugins, each one task on the main thread.            *)

\* QueueCreateRule: a rule that cannot be saved is deleted again.
ApiCreate(r, p, content) ==
    /\ Act /\ Ready /\ Unused(r) /\ p \in packages
    /\ PackageFor(p) \in packages \cap present
    /\ Saved(r, PackageFor(p), [version |-> 1, content |-> content])
    /\ deleted' = deleted \ {r}
    /\ UNCHANGED <<present, legacy, imports, up, packages, doomed, saving, buried>>

\* QueueUpdateRule: the request names the version it was made from; what the
\* editor has not saved of the rule is overwritten.
ApiUpdate(r, content) ==
    /\ Act /\ Ready /\ CanSave(r) /\ rules[r].package \notin doomed
    /\ Saved(r, rules[r].package, [version |-> NextVersion(r), content |-> content])
    /\ deleted' = deleted \ {r}
    /\ UNCHANGED <<present, legacy, imports, up, packages, doomed, saving, buried>>

RuleStoreNext ==
    \/ \E r \in RuleIDs, v \in 1..MaxVersion, c \in Contents :
         DropLegacyFile([rule |-> r, version |-> v, content |-> c])
    \/ \E readable \in SUBSET Packages :
        \/ ImportLegacyFile(readable)
        \/ \E read \in SUBSET readable : LoadRules(readable, read)
    \/ Stop
    \/ \E r \in RuleIDs :
        \/ \E c \in Contents : EditRule(r, c) \/ ApiUpdate(r, c)
        \/ \E p \in Packages, c \in Contents : CreateRule(r, p, c) \/ ApiCreate(r, p, c)
        \/ \E source \in RuleIDs, p \in Packages : DuplicateRule(source, r, p)
        \/ DiscardRule(r) \/ DeleteRule(r) \/ SaveNext(r)
    \/ \E p \in Packages : CreatePackage(p) \/ MarkPackage(p) \/ DeleteNextPackage(p)
    \/ BeginSaveRules \/ EndSaveRules

RuleStoreSpec == RuleStoreInit /\ [][RuleStoreNext]_storeVars
----------------------------------------------------------------------------
\* A saved game that names a version of a rule finds it (GetRuleVersion) with
\* the content it was saved with, also when the rule was deleted since: of a
\* rule that was loaded or saved, memory knows every version of its package.
VersionsKnown ==
    \A r \in DOMAIN owners :
        (owners[r] \in packages => rows[<<owners[r], r>>].versions \subseteq histories[r])

\* A rule that was deleted is not in effect again, whatever is saved, fails or
\* is loaded, unless a newer file of it is imported (DeleteRule).
DeletedStayDeleted == \A k \in buried : InMemory(k[2]) => rules[k[2]].package # k[1]

\* The store implements the ledger that saved games rely on: crashes, failures
\* and requests included, no committed version changes or is lost alone.
Ledger == INSTANCE RuleLedger
            WITH committed <- [k \in RowKeys |-> rows[k].versions], Versions <- 1..MaxVersion
LedgerKept == Ledger!LedgerSpec
=============================================================================
