---------------------------- MODULE SaveHistory ----------------------------
(***************************************************************************)
(* The companion history of the EDF core: what SaveStateManager keeps of   *)
(* the running game (the current context and the session data), the        *)
(* snapshots it keeps in memory per character, the file it writes them to, *)
(* and the messages that drive it (src/SaveState.cpp, src/plugin.cpp).     *)
(*                                                                         *)
(* The session data are abstracted to a stamp: the character whose game    *)
(* produced them and a counter that every change of the game raises.  The  *)
(* process may crash between any two steps of the writing of the file, and *)
(* inside each of them.                                                    *)
(***************************************************************************)
EXTENDS Integers, Sequences, FiniteSets

CONSTANTS
    Chars,          \* character IDs, all different from 0
    LegacyChars,    \* characters whose file has the format before the name keys
    TornRestore,    \* TRUE: a crash may tear the copy of the backup over the file
    MaxNum,         \* bound: save numbers
    MaxRev,         \* bound: games saved under the same number
    MaxChanges,     \* bound: changes of the session data
    MaxSaves,       \* bound: saves of the game
    MaxRuns         \* bound: loads, new games and crashes

ASSUME CharAssumption == Chars \subseteq Nat \ {0} /\ LegacyChars \subseteq Chars

ASSUME RestoreAssumption == TornRestore \in BOOLEAN

ASSUME SaveBoundAssumption ==
    /\ MaxNum \in Nat \ {0}
    /\ MaxRev \in Nat
    /\ MaxChanges \in Nat
    /\ MaxSaves \in Nat
    /\ MaxRuns \in Nat

VARIABLES
    context,  \* _currentContext
    session,  \* _sessionData, without the number and the name of the context
    cache,    \* _characterHistory: per character, the snapshots in memory
    disk,     \* per character, the file and its .bak
    pc,       \* the step of PersistCurrentSave or SetCurrentContext in progress
    job,      \* what UpdateSaveEntry is writing, and for which game save
    running,  \* the character of the game in progress, 0 in the main menu
    games,    \* the game's own saves: was their snapshot written, and what was in it
    strayed,  \* history: a game was loaded under the context of another character
    changes, saves, runs \* counters of the bounds

counters == <<changes, saves, runs>>
vars == <<context, session, cache, disk, pc, job, running, games, strayed, counters>>
----------------------------------------------------------------------------
(* Names, snapshots and files.                                             *)

NoName == [kind |-> "none", char |-> 0, num |-> 0, rev |-> 0]

\* "Save<number>_<character>_..." and "Quicksave0_<character>_...".
SaveName(c, n, r) == [kind |-> "Save", char |-> c, num |-> n, rev |-> r]
QuickName(c) == [kind |-> "Quick", char |-> c, num |-> 0, rev |-> 0]

GameNames ==
    {SaveName(c, n, r) : c \in Chars, n \in 1..MaxNum, r \in 0..MaxRev}
    \cup {QuickName(c) : c \in Chars}

Data == [char : Chars \cup {0}, stamp : 0..MaxChanges]
Blank == [char |-> 0, stamp |-> 0]

Entry == [num : 0..MaxNum, name : GameNames \cup {NoName}, data : Data]

File == [status : {"absent", "torn", "legacy", "current"}, history : Seq(Entry)]
Absent == [status |-> "absent", history |-> <<>>]
Torn == [status |-> "torn", history |-> <<>>]
Current(history) == [status |-> "current", history |-> history]

Parses(file) == file.status \in {"legacy", "current"}

\* parseFile of the file, then of its backup.
Readable(d) ==
    CASE Parses(d.main) -> d.main
      [] ~Parses(d.main) /\ Parses(d.bak) -> d.bak
      [] OTHER -> Absent

Least(S) == CHOOSE i \in S : \A j \in S : i <= j

\* The snapshot SetCurrentContext restores: the one with the number and the name
\* of the save, else one of that number without a name, else the first with the
\* greatest smaller number, else nothing.
Restored(history, num, name) ==
    LET exact   == {i \in DOMAIN history : history[i].num = num /\ history[i].name = name}
        unnamed == {i \in DOMAIN history : history[i].num = num /\ history[i].name = NoName}
        earlier == {i \in DOMAIN history : history[i].num < num}
        best    == {i \in earlier : \A j \in earlier : history[j].num <= history[i].num}
    IN CASE exact # {} -> history[Least(exact)].data
         [] exact = {} /\ unnamed # {} -> history[Least(unnamed)].data
         [] exact = {} /\ unnamed = {} /\ best # {} -> history[Least(best)].data
         [] OTHER -> Blank

\* UpdateSaveEntry in memory: the first snapshot of the same number and of the
\* same name, or of which either has no name, is replaced.
Updated(history, entry) ==
    LET same == {i \in DOMAIN history :
                    /\ history[i].num = entry.num
                    /\ \/ entry.name = NoName
                       \/ history[i].name \in {NoName, entry.name}}
    IN IF same # {} THEN [history EXCEPT ![Least(same)] = entry]
       ELSE Append(history, entry)

NoContext == [valid |-> FALSE, char |-> 0, num |-> 0, name |-> NoName]
NotLoaded == [loaded |-> FALSE, history |-> <<>>]
InMemory(history) == [loaded |-> TRUE, history |-> history]
NoJob == [char |-> 0, history |-> <<>>, save |-> NoName]

\* The number PersistCurrentSave reads from the file name: only a name with
\* "Save" in it has one, any other save keeps the number of the context.
SavedNumber(name) == IF name.kind = "Save" THEN name.num ELSE context.num

Legacy(c) == <<[num |-> 1, name |-> NoName, data |-> [char |-> c, stamp |-> 0]]>>
----------------------------------------------------------------------------
Init ==
    /\ context = NoContext
    /\ session = Blank
    /\ cache = [c \in Chars |-> NotLoaded]
    /\ disk = [c \in Chars |->
                [main |-> IF c \in LegacyChars
                          THEN [status |-> "legacy", history |-> Legacy(c)] ELSE Absent,
                 bak |-> Absent]]
    /\ pc = "idle"
    /\ job = NoJob
    /\ running = 0
    /\ games = [name \in {SaveName(c, 1, 0) : c \in LegacyChars} |->
                 [data |-> [char |-> name.char, stamp |-> 0], ok |-> TRUE]]
    /\ strayed = FALSE
    /\ changes = 0
    /\ saves = 0
    /\ runs = 0

Run == runs < MaxRuns /\ runs' = runs + 1
----------------------------------------------------------------------------
(* SetCurrentContext and ClearContext.                                     *)

\* LoadCharacterData: the snapshots that can be read become the cache; a file
\* of the old format is written back at once with its last snapshot.
LoadCharacterData(c) ==
    LET file == Readable(disk[c]) IN
    IF file.status = "legacy" /\ file.history # <<>>
    THEN LET migrated == Updated(file.history, file.history[Len(file.history)]) IN
         /\ cache' = [cache EXCEPT ![c] = InMemory(migrated)]
         /\ job' = [char |-> c, history |-> migrated, save |-> NoName]
         /\ pc' = "temp"
    ELSE /\ cache' = [cache EXCEPT ![c] = InMemory(file.history)]
         /\ pc' = "restore"
         /\ UNCHANGED job

SetCurrentContext(c, num, name) ==
    /\ context' = [valid |-> TRUE, char |-> c, num |-> num, name |-> name]
    /\ session' = Blank
    /\ IF c # 0 /\ ~cache[c].loaded
       THEN LoadCharacterData(c)
       ELSE /\ pc' = IF c = 0 THEN "idle" ELSE "restore"
            /\ UNCHANGED <<cache, job>>

\* The search of the history at the end of SetCurrentContext.
RestoreSession ==
    /\ pc = "restore"
    /\ session' = Restored(cache[context.char].history, context.num, context.name)
    /\ pc' = "idle"
    /\ UNCHANGED <<context, cache, disk, job, running, games, strayed, counters>>

\* Mutant: the context of the game that was left stays valid.
ClearContextKeepsOld ==
    /\ session' = Blank
    /\ UNCHANGED context

ClearContext ==
    /\ context' = NoContext
    /\ session' = Blank

\* The number in the header of a numbered save is its number; nothing is known
\* of the number the game gives a quicksave.
HeaderNumbers(name) == IF name.kind = "Save" THEN {name.num} ELSE 0..MaxNum

\* kPreLoadGame, and the game that is then loaded: without a name nothing follows,
\* a readable header sets the context, an unreadable one clears it.
PreLoadGame(name) ==
    /\ pc = "idle"
    /\ Run
    /\ name \in DOMAIN games
    /\ running' = name.char
    /\ \/ /\ UNCHANGED <<context, session, cache, job, pc>>
          /\ strayed' = (strayed \/ (context.valid /\ context.char # name.char))
       \/ /\ \E num \in HeaderNumbers(name) : SetCurrentContext(name.char, num, name)
          /\ UNCHANGED strayed
       \/ ClearContext /\ UNCHANGED <<cache, job, pc, strayed>>
    /\ UNCHANGED <<disk, games, changes, saves>>

\* kNewGame, for a character the game has just made up.
NewGame(c) ==
    /\ pc = "idle"
    /\ Run
    /\ disk[c].main = Absent /\ ~cache[c].loaded
    /\ \A name \in DOMAIN games : name.char # c
    /\ running' = c
    /\ SetCurrentContext(0, 0, NoName)
    /\ UNCHANGED <<disk, games, strayed, changes, saves>>

\* The rules change what the session records; nothing is recorded without a
\* valid context (ApplyRulesToInstance).
Play ==
    /\ pc = "idle"
    /\ running # 0
    /\ context.valid
    /\ changes < MaxChanges
    /\ changes' = changes + 1
    /\ session' = [char |-> running, stamp |-> changes']
    /\ UNCHANGED <<context, cache, disk, pc, job, running, games, strayed, saves, runs>>
----------------------------------------------------------------------------
(* PersistCurrentSave and UpdateSaveEntry.                                 *)

Recorded(name, ok) ==
    [n \in DOMAIN games \cup {name} |->
        CASE n # name -> games[n]
          [] n = name /\ ok -> [data |-> session, ok |-> TRUE]
          [] OTHER -> [data |-> Blank, ok |-> FALSE]]

\* kSaveGame.  A save under a number has a name of its own; a quicksave replaces
\* the previous one.
PersistCurrentSave(name) ==
    /\ pc = "idle"
    /\ running # 0
    /\ name.char = running
    /\ name.kind = "Quick" \/ name \notin DOMAIN games
    /\ saves < MaxSaves
    /\ saves' = saves + 1
    /\ IF context.valid
       THEN LET c == IF context.char = 0 THEN name.char ELSE context.char
                entry == [num |-> SavedNumber(name), name |-> name, data |-> session]
                history == Updated(cache[c].history, entry)
            IN /\ context' = [context EXCEPT !.char = c]
               /\ cache' = [cache EXCEPT ![c] = InMemory(history)]
               /\ job' = [char |-> c, history |-> history, save |-> name]
               /\ pc' = "temp"
               /\ UNCHANGED games
       ELSE /\ games' = Recorded(name, FALSE)
            /\ UNCHANGED <<context, cache, job, pc>>
    /\ UNCHANGED <<session, disk, running, strayed, changes, runs>>

\* The end of UpdateSaveEntry and of what called it: after a save the context
\* takes its number and name and the game writes its own file, after a migration
\* the session is restored.
Finish(ok) ==
    /\ job' = NoJob
    /\ IF job.save = NoName
       THEN pc' = "restore" /\ UNCHANGED <<context, games>>
       ELSE /\ pc' = "idle"
            /\ context' = [context EXCEPT !.num = SavedNumber(job.save), !.name = job.save]
            /\ games' = Recorded(job.save, ok /\ job.save.kind = "Save")

\* The history goes to the .tmp file, which is read back; an exception ends it.
WriteTemporary ==
    /\ pc = "temp"
    /\ \/ pc' = "backup" /\ UNCHANGED <<context, job, games>>
       \/ Finish(FALSE)
    /\ UNCHANGED <<session, cache, disk, running, strayed, counters>>

\* Mutant: no backup is made before the file is replaced.
BackupNothing ==
    /\ pc = "backup"
    /\ pc' = "promote"
    /\ UNCHANGED <<context, session, cache, disk, job, running, games, strayed, counters>>

\* copy_file of the file to .bak.
Backup ==
    /\ pc = "backup"
    /\ \/ /\ disk[job.char].main # Absent
          /\ disk' = [disk EXCEPT ![job.char].bak = disk[job.char].main]
          /\ pc' = "promote"
          /\ UNCHANGED <<context, job, games>>
       \/ /\ disk[job.char].main = Absent
          /\ pc' = "promote"
          /\ UNCHANGED <<context, disk, job, games>>
       \/ /\ disk[job.char].main # Absent
          /\ disk' \in {disk, [disk EXCEPT ![job.char].bak = Torn]}
          /\ Finish(FALSE)
    /\ UNCHANGED <<session, cache, running, strayed, counters>>

\* MoveFileExW of .tmp over the file.  When it fails the file may be gone.
Promote ==
    /\ pc = "promote"
    /\ \/ /\ disk' = [disk EXCEPT ![job.char].main = Current(job.history)]
          /\ Finish(TRUE)
       \/ /\ disk' \in {disk, [disk EXCEPT ![job.char].main = Absent]}
          /\ pc' = "fallback"
          /\ UNCHANGED <<context, job, games>>
    /\ UNCHANGED <<session, cache, running, strayed, counters>>

\* The copy of the backup over a file that is gone; its error is ignored.
Fallback ==
    /\ pc = "fallback"
    /\ LET d == disk[job.char] IN
       disk' \in IF d.main = Absent
                 THEN {disk, [disk EXCEPT ![job.char].main = d.bak]} ELSE {disk}
    /\ Finish(FALSE)
    /\ UNCHANGED <<session, cache, running, strayed, counters>>

\* What a crash inside the step in progress may leave on the disk.
CrashedDisk ==
    LET d == disk[job.char]
        Left(main, bak) == [disk EXCEPT ![job.char] = [main |-> main, bak |-> bak]]
    IN {disk}
       \cup (IF pc = "backup" /\ d.main # Absent
             THEN {Left(d.main, Torn), Left(d.main, d.main)} ELSE {})
       \cup (IF pc = "promote"
             THEN {Left(Absent, d.bak), Left(Current(job.history), d.bak)} ELSE {})
       \cup (IF pc = "fallback" /\ d.main = Absent /\ d.bak # Absent
             THEN {Left(d.bak, d.bak)}
                  \cup (IF TornRestore THEN {Left(Torn, d.bak)} ELSE {})
             ELSE {})

\* The process ends, in the middle of a step or because the player quits; a save
\* in progress leaves no save of the game.
Crash ==
    /\ Run
    /\ disk' \in CrashedDisk
    /\ context' = NoContext
    /\ session' = Blank
    /\ cache' = [c \in Chars |-> NotLoaded]
    /\ pc' = "idle"
    /\ job' = NoJob
    /\ running' = 0
    /\ UNCHANGED <<games, strayed, changes, saves>>
----------------------------------------------------------------------------
Next ==
    \/ \E name \in GameNames : PreLoadGame(name) \/ PersistCurrentSave(name)
    \/ \E c \in Chars : NewGame(c)
    \/ RestoreSession \/ Play
    \/ WriteTemporary \/ Backup \/ Promote \/ Fallback
    \/ Crash

Spec == Init /\ [][Next]_vars
----------------------------------------------------------------------------
(* Properties.                                                             *)

\* Every variable has its type; a job is in progress exactly while the file is
\* being written.
TypeOK ==
    /\ context \in [valid : BOOLEAN, char : Chars \cup {0}, num : 0..MaxNum,
                    name : GameNames \cup {NoName}]
    /\ session \in Data
    /\ cache \in [Chars -> [loaded : BOOLEAN, history : Seq(Entry)]]
    /\ disk \in [Chars -> [main : File, bak : File]]
    /\ pc \in {"idle", "restore", "temp", "backup", "promote", "fallback"}
    /\ job \in [char : Chars \cup {0}, history : Seq(Entry), save : GameNames \cup {NoName}]
    /\ job.char # 0 <=> pc \in {"temp", "backup", "promote", "fallback"}
    /\ running \in Chars \cup {0}
    /\ DOMAIN games \subseteq GameNames
    /\ \A name \in DOMAIN games :
        games[name] \in [data : Data, ok : BOOLEAN]
    /\ strayed \in BOOLEAN
    /\ changes \in 0..MaxChanges
    /\ saves \in 0..MaxSaves
    /\ runs \in 0..MaxRuns

\* The numbered saves whose snapshot was written without an error.
Written == {name \in DOMAIN games : games[name].ok}

\* The saves whose snapshots the file of the old format holds.
Migrated == {SaveName(c, 1, 0) : c \in LegacyChars}

Restores(name, history) ==
    Restored(history, name.num, name) = games[name].data

\* Loading a numbered save gives back the session data it was saved with, from
\* the memory of this process or, whenever the process ends, from the disk:
\* neither a later save, nor a quicksave under the same number, nor a failure or
\* a crash at any step of writing a later snapshot takes it away
\* (SetCurrentContext, UpdateSaveEntry, LoadCharacterData).
LoadRestoresSave ==
    ~strayed => \A name \in Written \ Migrated :
        /\ Restores(name, Readable(disk[name.char]).history)
        /\ cache[name.char].loaded => Restores(name, cache[name.char].history)

\* "[SaveManager] Migração concluída com sucesso para o disco."
\* (LoadCharacterData): the saves of a character whose history was in the old
\* format keep the snapshots that were migrated.
MigratedIsKept ==
    ~strayed => \A name \in Migrated :
        cache[name.char].loaded => Restores(name, cache[name.char].history)

\* What is recorded of one character's game is never kept for, or restored into,
\* the game of another (the context's character, set by kPreLoadGame, by the
\* name of a new game's first save, and cleared when the header is unreadable);
\* a load without a name, which leaves the context as it was, is the exception.
NoForeignData ==
    ~strayed =>
        /\ \A c \in Chars :
            \A history \in {cache[c].history, disk[c].main.history, disk[c].bak.history} :
                \A i \in DOMAIN history : history[i].data.char \in {c, 0}
        /\ context.valid => session.char \in {running, 0}
=============================================================================
