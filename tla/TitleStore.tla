----------------------------- MODULE TitleStore -----------------------------
(***************************************************************************)
(* The store of WIYT's titles (src/WIYT/Store.cpp): packages on disk, each *)
(* a directory with a manifest and a database, the titles in memory that   *)
(* the editor works on, and SaveAll, which writes what was modified and    *)
(* deletes what was marked.  A database transaction is atomic; SaveAll is  *)
(* many of them, any may fail, and the program may end between two.  A     *)
(* package is deleted file by file, without a transaction: a deletion that *)
(* fails may have taken the manifest, the database or both.                *)
(*                                                                         *)
(* Of a title's content only its public Global matters to the store; the   *)
(* rest is a number.                                                       *)
(***************************************************************************)
EXTENDS Integers, FiniteSets

CONSTANTS
    Packages, Local, \* package identifiers; Local is wiyt.local-titles
    PackageOrder,    \* per package, its place in the order of identifiers
    TitleIDs,        \* identifiers of titles
    Globals, Folded, \* EditorIDs of public Globals, and each in lower case
    Texts,           \* everything else in a title
    Disks,           \* what the disk may hold when the program first starts
    MaxActs          \* bound: actions of the editor, starts of the program

Contents == [global : Globals, text : Texts]
NoTitle == 0
Absent == [id \in {NoTitle} |-> 0] \* a package that is not on disk

Rows == [version : Nat, content : Contents]
IsDatabase(db) == DOMAIN db \subseteq TitleIDs /\ db \in [DOMAIN db -> Rows]
IsDisk(d) ==
    /\ d \in [Packages -> {d[p] : p \in Packages}]
    /\ \A p \in Packages : d[p] = Absent \/ IsDatabase(d[p])

ASSUME StoreAssumption ==
    /\ Local \in Packages /\ TitleIDs \subseteq Nat \ {NoTitle}
    /\ \A d \in Disks : IsDisk(d)
    /\ Folded \in [Globals -> Globals]
    /\ PackageOrder \in [Packages -> Nat]
    /\ MaxActs \in Nat

VARIABLES
    disk,      \* per package, its titles with version and content, or Absent
    listed,    \* packages whose manifest is on disk
    up,        \* the program runs and has loaded the store
    packages,  \* _packages
    titles,    \* _titles, by identifier: package, content, version, saved
    doomed,    \* _titlesToDelete
    doomedPackages, \* _packagesToDelete
    saving,    \* what SaveAll has still to do
    trouble,   \* history: a load or a save failed in part since the disk was clean
    settled,   \* history: SaveAll succeeded and nothing was edited since
    acts       \* counter of the bound

storeVars == <<disk, listed, up, packages, titles, doomed, doomedPackages, saving, trouble,
               settled, acts>>
memoryVars == <<packages, titles, doomed, doomedPackages>>
----------------------------------------------------------------------------
NotSaving == [on |-> FALSE, save |-> {}, delete |-> {}, deletePackages |-> {}, failed |-> FALSE]

StoreInit ==
    /\ disk \in Disks
    /\ listed = {p \in Packages : disk[p] # Absent}
    /\ up = FALSE
    /\ packages = {} /\ titles = <<>> /\ doomed = {} /\ doomedPackages = {}
    /\ saving = NotSaving
    /\ trouble = FALSE /\ settled = FALSE
    /\ acts = 0

Act == acts < MaxActs /\ acts' = acts + 1
Editing == up /\ ~saving.on

OnDisk(p) == disk[p] # Absent
Stored(p) == IF OnDisk(p) THEN DOMAIN disk[p] ELSE {}

\* The title that LoadPackage makes of a row: its hash is that of its content.
LoadedTitle(d, p, id) ==
    [package |-> p, content |-> d[p][id].content, version |-> d[p][id].version,
     saved |-> <<d[p][id].content>>]

\* Whether <<p, id>> comes before <<q, other>> in the order of Load.
Before(a, b) ==
    PackageOrder[a[1]] < PackageOrder[b[1]] \/ (a[1] = b[1] /\ a[2] < b[2])

\* Load keeps the first of two titles with the same identifier or Global.  The
\* Global of a title that was dropped for its identifier still counts.
Kept(d, rows) ==
    {r \in rows : \A s \in rows : Before(s, r) =>
        s[2] # r[2] /\ d[s[1]][s[2]].content.global # d[r[1]][r[2]].content.global}

RowsOf(d) == {r \in Packages \X TitleIDs : d[r[1]] # Absent /\ r[2] \in DOMAIN d[r[1]]}

\* The rows that Load comes to, when it finds the manifests of these packages.
FoundRows(d, ps) == {r \in RowsOf(d) : r[1] \in ps}

\* The titles in memory after loading these rows.
TitlesFrom(d, rows) ==
    [id \in {r[2] : r \in Kept(d, rows)} |->
        LoadedTitle(d, (CHOOSE r \in Kept(d, rows) : r[2] = id)[1], id)]

EmptyPackage == [id \in {} |-> 0]

\* Load of every package with a manifest, in the order of their identifiers.
\* One without a database stays in the list of packages, without titles.
LoadStore ==
    /\ Act /\ ~up
    /\ disk' = IF OnDisk(Local) THEN disk ELSE [disk EXCEPT ![Local] = EmptyPackage]
    /\ up' = TRUE
    /\ listed' = listed \cup {Local}
    /\ packages' = listed'
    /\ titles' = TitlesFrom(disk', FoundRows(disk', listed'))
    /\ doomed' = {} /\ doomedPackages' = {}
    /\ settled' = FALSE
    /\ UNCHANGED <<saving, trouble>>

\* A package whose manifest or database cannot be read is left out; without the
\* manifest it is not in the list of packages either.
LoadStoreInPart(p) ==
    /\ Act /\ ~up
    /\ Local \in listed /\ p \in listed \ {Local}
    /\ up' = TRUE
    /\ packages' \in {listed, listed \ {p}}
    /\ titles' = TitlesFrom(disk, FoundRows(disk, listed \ {p}))
    /\ doomed' = {} /\ doomedPackages' = {}
    /\ settled' = FALSE
    /\ trouble' = TRUE
    /\ UNCHANGED <<disk, listed, saving>>

\* The program ends, in the middle of SaveAll or not.
Stop ==
    /\ up /\ up' = FALSE
    /\ packages' = {} /\ titles' = <<>> /\ doomed' = {} /\ doomedPackages' = {}
    /\ saving' = NotSaving
    /\ settled' = FALSE
    /\ trouble' = (trouble \/ saving.on)
    /\ UNCHANGED <<disk, listed, acts>>
----------------------------------------------------------------------------
(* The editor.                                                             *)

\* The editor changes a title in place.
EditTitle(id, content) ==
    /\ Act /\ Editing
    /\ id \in DOMAIN titles /\ titles[id].content # content
    /\ titles' = [titles EXCEPT ![id].content = content]
    /\ settled' = FALSE
    /\ UNCHANGED <<disk, listed, up, packages, doomed, doomedPackages, saving, trouble>>

\* CreateTitle, with an identifier and a Global that no title has; a title for
\* a package that is not there goes to the local one.
CreateTitle(id, p, content) ==
    /\ Act /\ Editing
    /\ id \notin DOMAIN titles /\ \A q \in Packages : id \notin Stored(q)
    /\ \A other \in DOMAIN titles : titles[other].content.global # content.global
    /\ titles' = [x \in DOMAIN titles \cup {id} |->
            IF x = id THEN [package |-> IF p \in packages THEN p ELSE Local,
                            content |-> content, version |-> 0, saved |-> <<>>]
            ELSE titles[x]]
    /\ settled' = FALSE
    /\ UNCHANGED <<disk, listed, up, packages, doomed, doomedPackages, saving, trouble>>

\* CreatePackage, under an identifier that was never used: the directory, an
\* empty database and the manifest are made at once.
CreatePackage(p) ==
    /\ Act /\ Editing
    /\ p \notin packages \cup listed /\ ~OnDisk(p)
    /\ disk' = [disk EXCEPT ![p] = EmptyPackage]
    /\ listed' = listed \cup {p}
    /\ packages' = packages \cup {p}
    /\ UNCHANGED <<up, titles, doomed, doomedPackages, saving, trouble, settled>>

\* MarkTitleForDeletion and CancelTitleDeletion.
MarkTitle(id) ==
    /\ Act /\ Editing
    /\ \/ id \in DOMAIN titles \ doomed /\ doomed' = doomed \cup {id}
       \/ id \in doomed /\ doomed' = doomed \ {id}
    /\ settled' = FALSE
    /\ UNCHANGED <<disk, listed, up, packages, titles, doomedPackages, saving, trouble>>

\* MarkPackageForDeletion, which leaves the local package alone, and
\* CancelPackageDeletion.
MarkPackage(p) ==
    /\ Act /\ Editing
    /\ \/ p \in packages \ (doomedPackages \cup {Local})
          /\ doomedPackages' = doomedPackages \cup {p}
       \/ p \in doomedPackages /\ doomedPackages' = doomedPackages \ {p}
    /\ settled' = FALSE
    /\ UNCHANGED <<disk, listed, up, packages, titles, doomed, saving, trouble>>
----------------------------------------------------------------------------
(* SaveAll.                                                                *)

\* Titles that neither are deleted nor go with their package.
Lasting == {id \in DOMAIN titles : id \notin doomed /\ titles[id].package \notin doomedPackages}

\* The validation of all titles that last: their Globals differ even in lower case.
Valid ==
    \A a, b \in Lasting :
        a # b => Folded[titles[a].content.global] # Folded[titles[b].content.global]

\* TitleDefinition::IsModified.
Modified(id) == titles[id].saved # <<titles[id].content>>

\* SaveAll begins, unless the titles are not valid.
BeginSaveAll ==
    /\ Act /\ Editing /\ Valid
    /\ saving' = [on |-> TRUE, save |-> {id \in Lasting : Modified(id)}, delete |-> doomed,
                  deletePackages |-> doomedPackages, failed |-> FALSE]
    /\ UNCHANGED <<disk, listed, up, memoryVars, trouble, settled>>

\* Mutant: a title that could not be written counts as saved.
CountedAsSaved(id) == [titles EXCEPT ![id].saved = <<titles[id].content>>]

\* SaveTitle failed: nothing of the title changes.
AfterFailure(id) == titles

\* The row that SaveTitle writes: the version after the one in the database.
Row(p, id) ==
    [version |-> (IF id \in Stored(p) THEN disk[p][id].version ELSE 0) + 1,
     content |-> titles[id].content]

WithRow(db, id, row) == [x \in DOMAIN db \cup {id} |-> IF x = id THEN row ELSE db[x]]
WithoutRow(db, id) == [x \in DOMAIN db \ {id} |-> db[x]]

\* SaveTitle, one transaction.
SaveTitle(id) ==
    /\ saving.on /\ id \in saving.save
    /\ LET p == titles[id].package
       IN \/ /\ OnDisk(p)
             /\ disk' = [disk EXCEPT ![p] = WithRow(@, id, Row(p, id))]
             /\ titles' = [titles EXCEPT ![id].version = Row(p, id).version,
                                         ![id].saved = <<titles[id].content>>]
             /\ saving' = [saving EXCEPT !.save = @ \ {id}]
             /\ UNCHANGED trouble
          \/ /\ saving' = [saving EXCEPT !.save = @ \ {id}, !.failed = TRUE]
             /\ titles' = AfterFailure(id)
             /\ trouble' = TRUE
             /\ UNCHANGED disk
    /\ UNCHANGED <<listed, up, packages, doomed, doomedPackages, settled, acts>>

\* DeleteTitleNow, after all titles were saved; it cannot succeed without the
\* database of the title.
DeleteTitle(id) ==
    /\ saving.on /\ saving.save = {} /\ id \in saving.delete
    /\ \/ /\ id \in DOMAIN titles => OnDisk(titles[id].package)
          /\ disk' = IF id \notin DOMAIN titles THEN disk
                     ELSE [disk EXCEPT ![titles[id].package] = WithoutRow(@, id)]
          /\ titles' = WithoutRow(titles, id)
          /\ doomed' = doomed \ {id}
          /\ saving' = [saving EXCEPT !.delete = @ \ {id}]
          /\ UNCHANGED trouble
       \/ /\ saving' = [saving EXCEPT !.delete = @ \ {id}, !.failed = TRUE]
          /\ trouble' = TRUE
          /\ UNCHANGED <<disk, titles, doomed>>
    /\ UNCHANGED <<listed, up, packages, doomedPackages, settled, acts>>

\* The titles that remain when package p is gone.
Remaining(p) == [id \in {x \in DOMAIN titles : titles[x].package # p} |-> titles[id]]

\* DeletePackageNow, after all titles were deleted.  When remove_all fails, any
\* of the package's files may be gone already; the titles stay in memory.
DeletePackage(p) ==
    /\ saving.on /\ saving.save = {} /\ saving.delete = {} /\ p \in saving.deletePackages
    /\ \/ /\ disk' = [disk EXCEPT ![p] = Absent]
          /\ listed' = listed \ {p}
          /\ packages' = packages \ {p}
          /\ titles' = Remaining(p)
          /\ doomedPackages' = doomedPackages \ {p}
          /\ saving' = [saving EXCEPT !.deletePackages = @ \ {p}]
          /\ UNCHANGED trouble
       \/ /\ disk' \in {disk, [disk EXCEPT ![p] = Absent]}
          /\ listed' \in {listed, listed \ {p}}
          /\ saving' = [saving EXCEPT !.deletePackages = @ \ {p}, !.failed = TRUE]
          /\ trouble' = TRUE
          /\ UNCHANGED <<packages, titles, doomedPackages>>
    /\ UNCHANGED <<up, doomed, settled, acts>>

EndSaveAll ==
    /\ saving.on /\ saving.save = {} /\ saving.delete = {} /\ saving.deletePackages = {}
    /\ settled' = ~saving.failed
    /\ saving' = NotSaving
    /\ UNCHANGED <<disk, listed, up, memoryVars, trouble, acts>>

StoreNext ==
    \/ LoadStore \/ (\E p \in Packages : LoadStoreInPart(p)) \/ Stop
    \/ \E id \in TitleIDs :
        \/ \E c \in Contents : EditTitle(id, c) \/ \E p \in Packages : CreateTitle(id, p, c)
        \/ MarkTitle(id) \/ SaveTitle(id) \/ DeleteTitle(id)
    \/ \E p \in Packages : CreatePackage(p) \/ MarkPackage(p) \/ DeletePackage(p)
    \/ BeginSaveAll \/ EndSaveAll

StoreSpec == StoreInit /\ [][StoreNext]_storeVars
----------------------------------------------------------------------------
\* A title that counts as unmodified, so that SaveAll would not write it again,
\* is in the database of its package as it is in memory, whatever failed of the
\* loads and saves so far.  The exception is a package whose database a failed
\* deletion removed: its titles stay in memory as unmodified, and SaveAll, which
\* has nothing to write, reports success while they are nowhere on disk.
UnmodifiedIsOnDisk ==
    up => \A id \in DOMAIN titles : ~Modified(id) =>
        LET p == titles[id].package
        IN OnDisk(p) => id \in Stored(p)
                        /\ disk[p][id] = [version |-> titles[id].version,
                                          content |-> titles[id].content]

\* When SaveAll succeeded, a restart brings back the very titles in memory, as
\* long as no load and no save failed in part before.
RestartRestores ==
    settled /\ ~trouble => TitlesFrom(disk, FoundRows(disk, listed)) = titles

\* The disk and the memory agree wherever the store takes them to agree.
TitlesAreKept == UnmodifiedIsOnDisk /\ RestartRestores
=============================================================================
