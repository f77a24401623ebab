------------------------- MODULE SaveHistory_proofs -------------------------
(***************************************************************************)
(* Proofs about SaveHistory: a save whose snapshot was written is given    *)
(* back as it was saved, from memory and from the disk, whatever fails or  *)
(* crashes while a later one is written, and no character is given what    *)
(* was recorded of another.                                                *)
(***************************************************************************)
EXTENDS SaveHistory, WellFoundedInduction, TLAPS

Writing == {"temp", "backup", "promote", "fallback"}

\* The snapshots of a history that are the named save's own.
Own(history, name) == {i \in DOMAIN history : history[i].num = name.num /\ history[i].name = name}

\* The first of them, which is the one restored, has these data.
Holds(history, name, data) ==
    /\ Own(history, name) # {}
    /\ history[Least(Own(history, name))].data = data

\* What a file of a character is: one that is gone or torn holds nothing, one of
\* the old format holds the one snapshot without a name.
FileWell(file, c) ==
    /\ file.status = "absent" => file = Absent
    /\ file.status = "torn" => file = Torn
    /\ file.status = "legacy" => file.history = Legacy(c)

FilesWell == \A c \in Chars : FileWell(disk[c].main, c) /\ FileWell(disk[c].bak, c)

\* No character is left with a torn file, nor with a torn backup alone.
NothingTorn ==
    \A c \in Chars : disk[c].main # Torn /\ (disk[c].main = Absent => disk[c].bak # Torn)

\* What the context is: that of the game in progress, its character's history in
\* memory, unless the character has no save at all yet.
ContextWell ==
    /\ ~context.valid => context = NoContext
    /\ context.valid => running # 0
    /\ context.char # 0 => cache[context.char].loaded
    /\ pc = "restore" => context.char # 0
    /\ ~strayed /\ context.valid =>
        /\ context.char \in {0, running}
        /\ context.char = 0 => \A name \in DOMAIN games : name.char # running

\* What is being written: the history in memory of the context's character, for
\* a save that is not written yet, and, before the file is replaced, a backup of it.
JobWell ==
    /\ pc \in Writing =>
        /\ context.valid
        /\ context.char = job.char
        /\ cache[job.char] = InMemory(job.history)
        /\ pc = "promote" => disk[job.char].bak = disk[job.char].main
                             \/ disk[job.char].main = Absent
    /\ pc \in Writing /\ job.save # NoName =>
        /\ job.save.kind = "Save" => /\ job.save \notin DOMAIN games
                                     /\ Holds(job.history, job.save, session)
        /\ ~strayed => job.save.char = job.char

\* Every snapshot that was written is the one its save is given.
SnapshotsKept ==
    \A name \in Written : name.kind = "Save"
                          /\ (~strayed /\ name \notin Migrated =>
        /\ Holds(Readable(disk[name.char]).history, name, games[name].data)
        /\ cache[name.char].loaded => Holds(cache[name.char].history, name, games[name].data))

HistoryInv == TypeOK /\ FilesWell /\ ContextWell /\ JobWell

KeptInv == NothingTorn /\ SnapshotsKept
----------------------------------------------------------------------------
(* The searches of a history.                                              *)

LEMMA LeastOf ==
    ASSUME NEW S, S \subseteq Nat, S # {}
    PROVE  Least(S) \in S /\ \A j \in S : Least(S) <= j
  <1>1. \E R : IsWellFoundedOn(R, Nat) /\ \A x, y \in Nat : <<y, x>> \in R <=> y < x
    <2>1. \A x, y \in Nat : <<y, x>> \in OpToRel(<, Nat) <=> y < x
      BY DEF OpToRel
    <2>2. QED
      BY <2>1, NatLessThanWellFounded
  <1>2. PICK R : IsWellFoundedOn(R, Nat) /\ \A x, y \in Nat : <<y, x>> \in R <=> y < x
    BY <1>1
  <1>3. PICK x \in S : \A y \in S : ~(<<y, x>> \in R)
    BY <1>2, WFMin
  <1>4. \A y \in S : x <= y
    <2>1. \A y \in S : ~(y < x)
      BY <1>2, <1>3
    <2>2. QED
      BY <2>1
  <1>5. QED
    BY <1>4 DEF Least

LEMMA SomePlace ==
    ASSUME NEW history \in Seq(Entry), NEW P \in SUBSET DOMAIN history, P # {}
    PROVE  Least(P) \in P /\ (\A j \in P : Least(P) <= j) /\ Least(P) \in DOMAIN history
  <1>1. P \subseteq Nat
    <2>1. DOMAIN history = 1..Len(history) /\ Len(history) \in Nat
      OBVIOUS
    <2>2. QED
      BY <2>1
  <1>2. QED
    BY <1>1, LeastOf

\* A name is a save's or none, and a save's name is a character's.
LEMMA NamesAre ==
    \A name \in GameNames :
        /\ name.char \in Chars /\ name.num \in 0..MaxNum /\ name # NoName
        /\ name.kind \in {"Save", "Quick"}
  BY SaveBoundAssumption, CharAssumption DEF GameNames, SaveName, QuickName, NoName

\* The save's own snapshot is the one SetCurrentContext restores.
LEMMA RestoredOwn ==
    ASSUME NEW history, NEW name, NEW data, Holds(history, name, data)
    PROVE  Restored(history, name.num, name) = data
  <1> DEFINE exact == {i \in DOMAIN history : history[i].num = name.num /\ history[i].name = name}
  <1>1. exact # {} /\ history[Least(exact)].data = data
    BY DEF Holds, Own
  <1> HIDE DEF exact
  <1>2. Restored(history, name.num, name) = history[Least(exact)].data
    BY <1>1 DEF Restored, exact
  <1>3. QED
    BY <1>1, <1>2

\* What is restored is a snapshot of the history, or nothing.
LEMMA RestoredFrom ==
    ASSUME NEW history \in Seq(Entry), NEW num, NEW name
    PROVE  \/ Restored(history, num, name) = Blank
           \/ \E i \in DOMAIN history : Restored(history, num, name) = history[i].data
  <1> DEFINE exact == {i \in DOMAIN history : history[i].num = num /\ history[i].name = name}
             unnamed == {i \in DOMAIN history : history[i].num = num /\ history[i].name = NoName}
             earlier == {i \in DOMAIN history : history[i].num < num}
             best == {i \in earlier : \A j \in earlier : history[j].num <= history[i].num}
  <1>1. exact \in SUBSET DOMAIN history /\ unnamed \in SUBSET DOMAIN history
        /\ best \in SUBSET DOMAIN history
    OBVIOUS
  <1>2. Restored(history, num, name) =
          CASE exact # {} -> history[Least(exact)].data
            [] exact = {} /\ unnamed # {} -> history[Least(unnamed)].data
            [] exact = {} /\ unnamed = {} /\ best # {} -> history[Least(best)].data
            [] OTHER -> Blank
    BY DEF Restored
  <1> HIDE DEF exact, unnamed, best
  <1>3. CASE exact # {}
    BY <1>1, <1>2, <1>3, SomePlace
  <1>4. CASE exact = {} /\ unnamed # {}
    BY <1>1, <1>2, <1>4, SomePlace
  <1>5. CASE exact = {} /\ unnamed = {} /\ best # {}
    BY <1>1, <1>2, <1>5, SomePlace
  <1>6. CASE exact = {} /\ unnamed = {} /\ best = {}
    BY <1>2, <1>6
  <1>7. QED
    BY <1>3, <1>4, <1>5, <1>6

\* UpdateSaveEntry puts the new snapshot in the place of one it may replace, the
\* first there is, or at the end.
Replaceable(history, entry) ==
    {i \in DOMAIN history : /\ history[i].num = entry.num
                            /\ \/ entry.name = NoName
                               \/ history[i].name \in {NoName, entry.name}}

PutAt(place, history, entry, after) ==
    /\ after \in Seq(Entry)
    /\ place \in Nat
    /\ DOMAIN after = DOMAIN history \cup {place}
    /\ after[place] = entry
    /\ \A i \in DOMAIN history : i # place => after[i] = history[i]
    /\ place \in DOMAIN history =>
        place \in Replaceable(history, entry) /\ \A i \in Replaceable(history, entry) : place <= i
    /\ place \notin DOMAIN history => Replaceable(history, entry) = {}

LEMMA UpdatedForm ==
    ASSUME NEW history \in Seq(Entry), NEW entry \in Entry
    PROVE  \E place : PutAt(place, history, entry, Updated(history, entry))
  <1> DEFINE same == Replaceable(history, entry)
             after == Updated(history, entry)
  <1>1. after = IF same # {} THEN [history EXCEPT ![Least(same)] = entry]
                ELSE Append(history, entry)
    BY DEF Updated, Replaceable
  <1>2. same \in SUBSET DOMAIN history
    BY DEF Replaceable
  <1> HIDE DEF same, after
  <1>3. CASE same # {}
    <2>1. PICK place : place = Least(same)
      OBVIOUS
    <2>2. place \in same /\ (\A j \in same : place <= j) /\ place \in DOMAIN history
      BY <1>2, <1>3, <2>1, SomePlace
    <2>3. after = [history EXCEPT ![place] = entry]
      BY <1>1, <1>3, <2>1
    <2>a. after \in Seq(Entry) /\ DOMAIN after = DOMAIN history /\ after[place] = entry
          /\ \A i \in DOMAIN history : i # place => after[i] = history[i]
      BY <2>2, <2>3
    <2>b. place \in Nat
      BY <2>2
    <2>4. PutAt(place, history, entry, after)
      BY <2>2, <2>a, <2>b DEF same, PutAt
    <2>5. QED
      BY <2>4 DEF after
  <1>4. CASE same = {}
    <2>1. after = Append(history, entry)
      BY <1>1, <1>4
    <2>2. PutAt(Len(history) + 1, history, entry, after)
      BY <1>4, <2>1 DEF same, PutAt
    <2>3. QED
      BY <2>2 DEF after
  <1>5. QED
    BY <1>3, <1>4

\* A snapshot of the new history is the new one or one of the old ones.
LEMMA UpdatedFrom ==
    ASSUME NEW history \in Seq(Entry), NEW entry \in Entry
    PROVE  /\ Updated(history, entry) \in Seq(Entry)
           /\ \A i \in DOMAIN Updated(history, entry) :
                \/ Updated(history, entry)[i] = entry
                \/ \E j \in DOMAIN history : Updated(history, entry)[i] = history[j]
  <1>1. PICK place : PutAt(place, history, entry, Updated(history, entry))
    BY UpdatedForm
  <1>2. QED
    BY <1>1 DEF PutAt

\* The first snapshot of a save stays the first, with its data, when a snapshot
\* under another name is put in.
LEMMA OthersHold ==
    ASSUME NEW history \in Seq(Entry), NEW entry \in Entry, NEW name, NEW data,
           name # NoName, entry.name \notin {NoName, name}, Holds(history, name, data)
    PROVE  Holds(Updated(history, entry), name, data)
  <1> DEFINE after == Updated(history, entry)
  <1>0. PICK place : PutAt(place, history, entry, after)
    BY UpdatedForm
  <1> HIDE DEF after
  <1>1. place \notin Own(history, name) /\ place \notin Own(after, name)
    BY <1>0 DEF PutAt, Own, Replaceable
  <1>2. \A i \in DOMAIN history : i # place => after[i] = history[i]
    BY <1>0 DEF PutAt
  <1>3. Own(after, name) = Own(history, name)
    BY <1>0, <1>1, <1>2 DEF PutAt, Own
  <1>4. Own(history, name) \in SUBSET DOMAIN history
    BY DEF Own
  <1>5. Least(Own(history, name)) \in Own(history, name)
    BY <1>4, SomePlace DEF Holds
  <1>6. after[Least(Own(history, name))] = history[Least(Own(history, name))]
    BY <1>1, <1>2, <1>4, <1>5
  <1>7. QED
    BY <1>3, <1>6 DEF Holds, after

\* The snapshot put in for a save is from then on its first.
LEMMA NewHolds ==
    ASSUME NEW history \in Seq(Entry), NEW entry \in Entry, NEW name,
           name # NoName, entry.name = name, entry.num = name.num
    PROVE  Holds(Updated(history, entry), name, entry.data)
  <1> DEFINE after == Updated(history, entry)
  <1>0. PICK place : PutAt(place, history, entry, after)
    BY UpdatedForm
  <1> HIDE DEF after
  <1>1. place \in Own(after, name) /\ after[place] = entry /\ place \in Nat /\ after \in Seq(Entry)
    BY <1>0 DEF PutAt, Own
  <1>2. ASSUME NEW i \in Own(after, name)
        PROVE  place <= i
    <2>1. CASE i = place
      BY <1>1, <2>1
    <2>2. CASE i # place
      <3>1. i \in Replaceable(history, entry)
        BY <1>0, <1>2, <2>2 DEF PutAt, Own, Replaceable
      <3>2. QED
        BY <1>0, <3>1 DEF PutAt
    <2>3. QED
      BY <2>1, <2>2
  <1>3. Own(after, name) \in SUBSET DOMAIN after
    BY DEF Own
  <1>4. Least(Own(after, name)) \in Own(after, name)
        /\ Least(Own(after, name)) <= place /\ Least(Own(after, name)) \in Nat
    BY <1>1, <1>3, SomePlace
  <1>5. Least(Own(after, name)) = place
    BY <1>1, <1>2, <1>4
  <1>6. QED
    BY <1>1, <1>5 DEF Holds, after
----------------------------------------------------------------------------
(* The steps, as the proofs use them.                                      *)

LEMMA Histories ==
    ASSUME TypeOK, NEW c \in Chars
    PROVE  /\ cache[c] \in [loaded : BOOLEAN, history : Seq(Entry)]
           /\ disk[c].main \in File /\ disk[c].bak \in File
           /\ disk[c] = [main |-> disk[c].main, bak |-> disk[c].bak]
           /\ Readable(disk[c]) \in {disk[c].main, disk[c].bak, Absent}
           /\ Readable(disk[c]).history \in Seq(Entry)
  <1>1. disk[c] \in [main : File, bak : File] /\ cache[c] \in [loaded : BOOLEAN, history : Seq(Entry)]
    BY DEF TypeOK
  <1>2. Readable(disk[c]) \in {disk[c].main, disk[c].bak, Absent}
    BY DEF Readable
  <1>3. Absent.history = <<>> /\ <<>> \in Seq(Entry)
    BY DEF Absent
  <1>4. \A file \in File : file.history \in Seq(Entry)
    BY DEF File
  <1>5. QED
    BY <1>1, <1>2, <1>3, <1>4

\* LoadCharacterData makes a history the one in memory; one of the old format is
\* then written back.
LoadsAs(c, history) ==
    /\ c \in Chars /\ ~cache[c].loaded
    /\ cache' = [cache EXCEPT ![c] = InMemory(history)]
    /\ \/ /\ history = Readable(disk[c]).history
          /\ pc' = "restore"
          /\ job' = job
       \/ /\ Readable(disk[c]).status = "legacy"
          /\ \E e \in Entry :
                /\ history = Updated(Readable(disk[c]).history, e)
                /\ \E i \in DOMAIN Readable(disk[c]).history : e = Readable(disk[c]).history[i]
          /\ pc' = "temp"
          /\ job' = [char |-> c, history |-> history, save |-> NoName]

\* SetCurrentContext: the data are those of nothing yet, the character's history
\* is in memory.
LEMMA SetForm ==
    ASSUME TypeOK, NEW c \in Chars \cup {0}, NEW num, NEW name,
           SetCurrentContext(c, num, name)
    PROVE  /\ context' = [valid |-> TRUE, char |-> c, num |-> num, name |-> name]
           /\ session' = Blank
           /\ \/ c = 0 /\ pc' = "idle" /\ cache' = cache /\ job' = job
              \/ c \in Chars /\ cache[c].loaded /\ pc' = "restore" /\ cache' = cache /\ job' = job
              \/ \E history \in Seq(Entry) : LoadsAs(c, history)
  <1>1. CASE c # 0 /\ ~cache[c].loaded
    <2> DEFINE file == Readable(disk[c])
               last == file.history[Len(file.history)]
               migrated == Updated(file.history, last)
    <2>1. c \in Chars
      BY <1>1
    <2>2. file.history \in Seq(Entry)
      BY <2>1, Histories
    <2>3. LoadCharacterData(c)
      BY <1>1 DEF SetCurrentContext
    <2>4. CASE file.status = "legacy" /\ file.history # <<>>
      <3>1. Len(file.history) \in DOMAIN file.history /\ last \in Entry
        BY <2>2, <2>4
      <3>2. migrated \in Seq(Entry)
        BY <2>2, <3>1, UpdatedFrom
      <3>3. /\ cache' = [cache EXCEPT ![c] = InMemory(migrated)]
            /\ job' = [char |-> c, history |-> migrated, save |-> NoName]
            /\ pc' = "temp"
        BY <2>3, <2>4 DEF LoadCharacterData
      <3> HIDE DEF migrated, last, file
      <3>4. migrated = Updated(file.history, last) /\ last = file.history[Len(file.history)]
            /\ file = Readable(disk[c])
        BY DEF migrated, last, file
      <3>5. LoadsAs(c, migrated)
        BY <1>1, <2>1, <2>4, <3>1, <3>3, <3>4 DEF LoadsAs
      <3>6. QED
        BY <3>2, <3>5 DEF SetCurrentContext
    <2>5. CASE ~(file.status = "legacy" /\ file.history # <<>>)
      <3>1. cache' = [cache EXCEPT ![c] = InMemory(file.history)] /\ pc' = "restore" /\ job' = job
        BY <2>3, <2>5 DEF LoadCharacterData
      <3>2. LoadsAs(c, file.history)
        BY <1>1, <2>1, <3>1 DEF LoadsAs
      <3>3. QED
        BY <2>2, <3>2 DEF SetCurrentContext
    <2>6. QED
      BY <2>4, <2>5
  <1>2. CASE ~(c # 0 /\ ~cache[c].loaded)
    BY <1>2, CharAssumption DEF SetCurrentContext
  <1>3. QED
    BY <1>1, <1>2

\* UpdateSaveEntry ends: a migration goes on to restore, a save names the context
\* and becomes one of the game's saves.
LEMMA FinishForm ==
    ASSUME TypeOK, NEW ok \in BOOLEAN, Finish(ok), pc \in Writing
    PROVE  /\ job' = NoJob
           /\ \/ job.save = NoName /\ pc' = "restore" /\ context' = context /\ games' = games
              \/ /\ job.save \in GameNames /\ pc' = "idle"
                 /\ \E num \in 0..MaxNum :
                        context' = [valid |-> context.valid, char |-> context.char,
                                    num |-> num, name |-> job.save]
                 /\ games' = Recorded(job.save, ok /\ job.save.kind = "Save")
  <1>1. job.save \in GameNames \cup {NoName} /\ context = [valid |-> context.valid,
            char |-> context.char, num |-> context.num, name |-> context.name]
        /\ context.num \in 0..MaxNum
    BY DEF TypeOK
  <1>2. CASE job.save = NoName
    BY <1>2 DEF Finish
  <1>3. CASE job.save # NoName
    <2>1. SavedNumber(job.save) \in 0..MaxNum
      BY <1>1, <1>3, NamesAre DEF SavedNumber
    <2>2. context' = [context EXCEPT !.num = SavedNumber(job.save), !.name = job.save]
      BY <1>3 DEF Finish
    <2>3. PICK num \in 0..MaxNum : num = SavedNumber(job.save)
      BY <2>1
    <2>4. context' = [valid |-> context.valid, char |-> context.char, num |-> num, name |-> job.save]
      BY <1>1, <2>2, <2>3
    <2>5. QED
      BY <1>1, <1>3, <2>4 DEF Finish
  <1>4. QED
    BY <1>2, <1>3 DEF Finish

\* The game's saves after one more: the others as they were.
LEMMA RecordedForm ==
    ASSUME TypeOK, NEW name \in GameNames, NEW ok \in BOOLEAN, NEW after,
           after = Recorded(name, ok)
    PROVE  /\ DOMAIN after = DOMAIN games \cup {name}
           /\ \A n \in DOMAIN games \ {name} : after[n] = games[n]
           /\ ok => after[name] = [data |-> session, ok |-> TRUE]
           /\ ~ok => after[name] = [data |-> Blank, ok |-> FALSE]
  BY DEF Recorded
----------------------------------------------------------------------------
(* Types.                                                                  *)

\* The parts of TypeOK that the steps disturb together.
ContextTyped ==
    /\ context \in [valid : BOOLEAN, char : Chars \cup {0}, num : 0..MaxNum,
                    name : GameNames \cup {NoName}]
    /\ session \in Data
    /\ cache \in [Chars -> [loaded : BOOLEAN, history : Seq(Entry)]]

WorkTyped ==
    /\ pc \in {"idle", "restore"} \cup Writing
    /\ job \in [char : Chars \cup {0}, history : Seq(Entry), save : GameNames \cup {NoName}]
    /\ job.char # 0 <=> pc \in Writing

GamesTyped ==
    /\ DOMAIN games \subseteq GameNames
    /\ \A name \in DOMAIN games : games[name] \in [data : Data, ok : BOOLEAN]

RestTyped ==
    /\ disk \in [Chars -> [main : File, bak : File]]
    /\ running \in Chars \cup {0}
    /\ strayed \in BOOLEAN
    /\ changes \in 0..MaxChanges
    /\ saves \in 0..MaxSaves
    /\ runs \in 0..MaxRuns

LEMMA TypeParts == TypeOK <=> ContextTyped /\ WorkTyped /\ GamesTyped /\ RestTyped
  BY DEF TypeOK, ContextTyped, WorkTyped, GamesTyped, RestTyped, Writing

LEMMA Constants ==
    /\ Blank \in Data /\ NoName \in GameNames \cup {NoName} /\ <<>> \in Seq(Entry)
    /\ NotLoaded \in [loaded : BOOLEAN, history : Seq(Entry)]
    /\ \A history \in Seq(Entry) : InMemory(history) \in [loaded : BOOLEAN, history : Seq(Entry)]
    /\ NoContext \in [valid : BOOLEAN, char : Chars \cup {0}, num : 0..MaxNum,
                      name : GameNames \cup {NoName}]
    /\ NoJob \in [char : Chars \cup {0}, history : Seq(Entry), save : GameNames \cup {NoName}]
    /\ Absent \in File /\ Torn \in File
    /\ \A history \in Seq(Entry) : Current(history) \in File
    /\ \A c \in Chars : Legacy(c) \in Seq(Entry)
  <1>1. <<>> \in Seq(Entry) /\ Blank \in Data
    BY SaveBoundAssumption DEF Blank, Data
  <1>2. ASSUME NEW c \in Chars
        PROVE  Legacy(c) \in Seq(Entry)
    <2>1. [num |-> 1, name |-> NoName, data |-> [char |-> c, stamp |-> 0]] \in Entry
      BY SaveBoundAssumption DEF Entry, Data
    <2>2. QED
      BY <2>1 DEF Legacy
  <1>3. 0 \in 0..MaxNum
    BY SaveBoundAssumption
  <1>4. QED
    BY <1>1, <1>2, <1>3 DEF NotLoaded, InMemory, NoContext, NoJob, Absent, Torn, Current, File

LEMMA SetTyped ==
    ASSUME TypeOK, pc = "idle", NEW c \in Chars \cup {0}, NEW num \in 0..MaxNum,
           NEW name \in GameNames \cup {NoName}, SetCurrentContext(c, num, name)
    PROVE  ContextTyped' /\ WorkTyped'
  <1>1. ContextTyped /\ WorkTyped /\ job.char = 0
    BY TypeParts DEF WorkTyped, Writing
  <1>2. context' \in [valid : BOOLEAN, char : Chars \cup {0}, num : 0..MaxNum,
                      name : GameNames \cup {NoName}] /\ session' \in Data
    <2>1. session' = Blank /\ context' = [valid |-> TRUE, char |-> c, num |-> num, name |-> name]
      BY SetForm
    <2>2. QED
      BY <2>1, Constants
  <1>3. CASE cache' = cache /\ job' = job /\ pc' \in {"idle", "restore"}
    BY <1>1, <1>2, <1>3 DEF ContextTyped, WorkTyped, Writing
  <1>4. ASSUME NEW history \in Seq(Entry), LoadsAs(c, history)
        PROVE  ContextTyped' /\ WorkTyped'
    <2>1. InMemory(history) \in [loaded : BOOLEAN, history : Seq(Entry)]
      BY Constants
    <2>2. ContextTyped'
      BY <1>1, <1>2, <1>4, <2>1 DEF ContextTyped, LoadsAs
    <2>3. c # 0
      BY <1>4, CharAssumption DEF LoadsAs
    <2>4. WorkTyped'
      BY <1>1, <1>4, <2>3 DEF WorkTyped, LoadsAs, Writing
    <2>5. QED
      BY <2>2, <2>4
  <1>5. QED
    BY <1>3, <1>4, SetForm

LEMMA FinishTyped ==
    ASSUME TypeOK, NEW ok \in BOOLEAN, Finish(ok), pc \in Writing, session' = session, cache' = cache
    PROVE  ContextTyped' /\ WorkTyped' /\ GamesTyped'
  <1>1. ContextTyped /\ WorkTyped /\ GamesTyped
    BY TypeParts
  <1>2. NoJob.char = 0
    BY DEF NoJob
  <1>3. CASE job.save = NoName /\ pc' = "restore" /\ context' = context /\ games' = games
    BY <1>1, <1>2, <1>3, Constants, FinishForm DEF ContextTyped, WorkTyped, GamesTyped, Writing
  <1>4. CASE /\ job.save \in GameNames /\ pc' = "idle"
             /\ \E num \in 0..MaxNum :
                    context' = [valid |-> context.valid, char |-> context.char,
                                num |-> num, name |-> job.save]
             /\ games' = Recorded(job.save, ok /\ job.save.kind = "Save")
    <2>1. ContextTyped'
      BY <1>1, <1>4 DEF ContextTyped
    <2>2. WorkTyped'
      BY <1>2, <1>4, Constants, FinishForm DEF WorkTyped, Writing
    <2>3. GamesTyped'
      <3>1. PICK good \in BOOLEAN : good = (ok /\ job.save.kind = "Save")
        OBVIOUS
      <3>2. games' = Recorded(job.save, good)
        BY <1>4, <3>1
      <3>3. /\ DOMAIN games' = DOMAIN games \cup {job.save}
            /\ \A n \in DOMAIN games \ {job.save} : games'[n] = games[n]
            /\ good => games'[job.save] = [data |-> session, ok |-> TRUE]
            /\ ~good => games'[job.save] = [data |-> Blank, ok |-> FALSE]
        BY <1>4, <3>2 DEF Recorded
      <3>4. QED
        <4>1. \A n \in DOMAIN games' : games'[n] \in [data : Data, ok : BOOLEAN]
          <5>1. session \in Data /\ Blank \in Data
            BY <1>1, Constants DEF ContextTyped
          <5>2. games'[job.save] \in [data : Data, ok : BOOLEAN]
            <6>1. /\ [data |-> session, ok |-> TRUE] \in [data : Data, ok : BOOLEAN]
                  /\ [data |-> Blank, ok |-> FALSE] \in [data : Data, ok : BOOLEAN]
              BY <5>1
            <6>2. games'[job.save] \in {[data |-> session, ok |-> TRUE], [data |-> Blank, ok |-> FALSE]}
              BY <3>3, Zenon
            <6>3. QED
              BY <6>1, <6>2
          <5>3. QED
            BY <1>1, <3>3, <5>2 DEF GamesTyped
        <4>2. DOMAIN games' \subseteq GameNames
          BY <1>1, <1>4, <3>3 DEF GamesTyped
        <4>3. QED
          BY <4>1, <4>2 DEF GamesTyped
    <2>4. QED
      BY <2>1, <2>2, <2>3
  <1>5. QED
    BY <1>3, <1>4, FinishForm

\* What is left of a file is a file.
LEMMA DiskTyped ==
    ASSUME TypeOK, NEW c \in Chars
    PROVE  /\ \A file \in File : /\ [disk EXCEPT ![c].main = file] \in [Chars -> [main : File, bak : File]]
                                 /\ [disk EXCEPT ![c].bak = file] \in [Chars -> [main : File, bak : File]]
           /\ \A f, g \in File :
                [disk EXCEPT ![c] = [main |-> f, bak |-> g]] \in [Chars -> [main : File, bak : File]]
  BY DEF TypeOK

LEMMA WritingHas ==
    ASSUME TypeOK, pc \in Writing
    PROVE  /\ job.char \in Chars /\ job.history \in Seq(Entry)
           /\ job.save \in GameNames \cup {NoName} /\ job = [char |-> job.char,
                history |-> job.history, save |-> job.save]
  BY TypeParts DEF WorkTyped

\* What a step of the writing, or a crash in it, may leave of the two files.
Leaves(main, bak) ==
    /\ pc \in Writing
    /\ disk' = [disk EXCEPT ![job.char] = [main |-> main, bak |-> bak]]
    /\ \/ /\ pc = "backup" /\ disk[job.char].main # Absent
          /\ main = disk[job.char].main /\ bak \in {Torn, disk[job.char].main}
       \/ /\ pc = "promote" /\ bak = disk[job.char].bak
          /\ main \in {Absent, Current(job.history)}
       \/ /\ pc = "fallback" /\ disk[job.char].main = Absent
          /\ bak = disk[job.char].bak
          /\ main = bak \/ (main = Torn /\ TornRestore)

LEMMA CrashForm ==
    ASSUME TypeOK, disk' \in CrashedDisk
    PROVE  disk' = disk \/ \E main, bak \in File : Leaves(main, bak)
  <1>1. CASE pc \notin Writing
    BY <1>1 DEF CrashedDisk, Writing
  <1>2. CASE pc \in Writing
    <2>1. job.char \in Chars /\ job.history \in Seq(Entry)
      BY <1>2, WritingHas
    <2>2. disk[job.char].main \in File /\ disk[job.char].bak \in File /\ Absent \in File
          /\ Torn \in File /\ Current(job.history) \in File
      BY <2>1, Histories, Constants
    <2>3. CASE pc = "backup"
      BY <1>2, <2>2, <2>3 DEF CrashedDisk, Leaves
    <2>4. CASE pc = "promote"
      BY <1>2, <2>2, <2>4 DEF CrashedDisk, Leaves
    <2>5. CASE pc = "fallback"
      BY <1>2, <2>2, <2>5 DEF CrashedDisk, Leaves
    <2>6. CASE pc = "temp"
      BY <2>6 DEF CrashedDisk
    <2>7. QED
      BY <1>2, <2>3, <2>4, <2>5, <2>6 DEF Writing
  <1>3. QED
    BY <1>1, <1>2

LEMMA TypeStep ==
    ASSUME TypeOK, pc = "restore" => context.char # 0, [Next]_vars
    PROVE  TypeOK'
  <1>0. ContextTyped /\ WorkTyped /\ GamesTyped /\ RestTyped
    BY TypeParts
  <1>a. \A ok \in BOOLEAN : Finish(ok) /\ pc \in Writing /\ session' = session /\ cache' = cache
                            => ContextTyped' /\ WorkTyped' /\ GamesTyped'
    BY FinishTyped
  <1>b. TRUE \in BOOLEAN /\ FALSE \in BOOLEAN
    OBVIOUS
  <1> SUFFICES ContextTyped' /\ WorkTyped' /\ GamesTyped' /\ RestTyped'
    BY TypeParts DEF TypeOK, ContextTyped, WorkTyped, GamesTyped, RestTyped, Writing
  <1>1. ASSUME NEW name \in GameNames, PreLoadGame(name)
        PROVE  ContextTyped' /\ WorkTyped' /\ GamesTyped' /\ RestTyped'
    <2>0. strayed' \in BOOLEAN
      BY <1>0, <1>1 DEF PreLoadGame, RestTyped
    <2>1. RestTyped'
      BY <1>0, <1>1, <2>0, NamesAre, SaveBoundAssumption DEF PreLoadGame, Run, RestTyped
    <2>2. GamesTyped'
      BY <1>0, <1>1 DEF PreLoadGame, GamesTyped
    <2>3. CASE UNCHANGED <<context, session, cache, job, pc>>
      BY <1>0, <2>1, <2>2, <2>3 DEF ContextTyped, WorkTyped
    <2>4. ASSUME NEW num \in HeaderNumbers(name), SetCurrentContext(name.char, num, name)
          PROVE  ContextTyped' /\ WorkTyped'
      <3>1. num \in 0..MaxNum /\ name.char \in Chars
        BY NamesAre DEF HeaderNumbers
      <3>2. QED
        BY <1>1, <2>4, <3>1, SetTyped DEF PreLoadGame
    <2>5. CASE ClearContext /\ UNCHANGED <<cache, job, pc, strayed>>
      BY <1>0, <2>1, <2>2, <2>5, Constants DEF ContextTyped, WorkTyped, ClearContext
    <2>6. QED
      BY <1>1, <2>1, <2>2, <2>3, <2>4, <2>5 DEF PreLoadGame
  <1>2. ASSUME NEW name \in GameNames, PersistCurrentSave(name)
        PROVE  ContextTyped' /\ WorkTyped' /\ GamesTyped' /\ RestTyped'
    <2>1. RestTyped'
      BY <1>0, <1>2, SaveBoundAssumption DEF PersistCurrentSave, RestTyped
    <2>2. CASE ~context.valid
      <3>1. games' = Recorded(name, FALSE) /\ UNCHANGED <<context, session, cache, job, pc>>
        BY <1>2, <2>2 DEF PersistCurrentSave
      <3>2. /\ DOMAIN games' = DOMAIN games \cup {name}
            /\ \A n \in DOMAIN games \ {name} : games'[n] = games[n]
            /\ games'[name] = [data |-> Blank, ok |-> FALSE]
        BY <3>1 DEF Recorded
      <3>3. [data |-> Blank, ok |-> FALSE] \in [data : Data, ok : BOOLEAN]
        BY Constants
      <3>4. GamesTyped'
        BY <1>0, <3>2, <3>3 DEF GamesTyped
      <3>5. QED
        BY <1>0, <2>1, <3>1, <3>4 DEF ContextTyped, WorkTyped
    <2>3. CASE context.valid
      <3> DEFINE c == IF context.char = 0 THEN name.char ELSE context.char
                 entry == [num |-> SavedNumber(name), name |-> name, data |-> session]
                 history == Updated(cache[c].history, entry)
      <3>1. c \in Chars
        BY <1>0, NamesAre DEF ContextTyped
      <3>2. entry \in Entry
        BY <1>0, NamesAre DEF ContextTyped, SavedNumber, Entry
      <3>3. history \in Seq(Entry)
        BY <3>1, <3>2, Histories, UpdatedFrom
      <3>4. /\ context' = [context EXCEPT !.char = c]
            /\ cache' = [cache EXCEPT ![c] = InMemory(history)]
            /\ job' = [char |-> c, history |-> history, save |-> name]
            /\ pc' = "temp" /\ games' = games /\ session' = session
        BY <1>2, <2>3 DEF PersistCurrentSave
      <3> HIDE DEF c, history
      <3>5. InMemory(history) \in [loaded : BOOLEAN, history : Seq(Entry)]
        BY <3>3, Constants
      <3>6. ContextTyped'
        BY <1>0, <3>1, <3>4, <3>5 DEF ContextTyped
      <3>7. WorkTyped'
        BY <3>1, <3>3, <3>4, CharAssumption DEF WorkTyped, Writing
      <3>8. QED
        BY <1>0, <2>1, <3>4, <3>6, <3>7 DEF GamesTyped
    <2>4. QED
      BY <2>2, <2>3
  <1>3. ASSUME NEW c \in Chars, NewGame(c)
        PROVE  ContextTyped' /\ WorkTyped' /\ GamesTyped' /\ RestTyped'
    <2>1. 0 \in Chars \cup {0} /\ 0 \in 0..MaxNum /\ NoName \in GameNames \cup {NoName}
      BY SaveBoundAssumption
    <2>2. ContextTyped' /\ WorkTyped'
      BY <1>3, <2>1, SetTyped DEF NewGame
    <2>3. QED
      BY <1>0, <1>3, <2>2, SaveBoundAssumption DEF NewGame, Run, GamesTyped, RestTyped
  <1>4. CASE RestoreSession
    <2>1. session' \in Data
      <3>1. context.char \in Chars
        BY <1>0, <1>4 DEF RestoreSession, ContextTyped
      <3>2. PICK history \in Seq(Entry) : history = cache[context.char].history
        BY <3>1, Histories
      <3>3. session' = Restored(history, context.num, context.name)
        BY <1>4, <3>2 DEF RestoreSession
      <3>4. ASSUME NEW i \in DOMAIN history
            PROVE  history[i].data \in Data
        <4>1. history[i] \in Entry
          OBVIOUS
        <4>2. QED
          BY <4>1 DEF Entry
      <3>5. QED
        BY <3>3, <3>4, Constants, RestoredFrom
    <2>2. QED
      BY <1>0, <1>4, <2>1 DEF RestoreSession, ContextTyped, WorkTyped, GamesTyped, RestTyped, counters, Writing
  <1>5. CASE Play
    <2>1. session' \in Data /\ changes' \in 0..MaxChanges
      BY <1>0, <1>5, SaveBoundAssumption DEF Play, RestTyped, Data
    <2>2. QED
      BY <1>0, <1>5, <2>1 DEF Play, ContextTyped, WorkTyped, GamesTyped, RestTyped
  <1>6. CASE WriteTemporary
    <2>1. RestTyped' /\ pc \in Writing /\ session' = session /\ cache' = cache
      BY <1>0, <1>6 DEF WriteTemporary, RestTyped, counters, Writing
    <2>2. CASE pc' = "backup" /\ UNCHANGED <<context, job, games>>
      BY <1>0, <2>1, <2>2 DEF ContextTyped, WorkTyped, GamesTyped, Writing
    <2>3. QED
      BY <1>6, <1>a, <1>b, <2>1, <2>2 DEF WriteTemporary
  <1>7. CASE Backup
    <2>1. pc \in Writing /\ session' = session /\ cache' = cache
      BY <1>7 DEF Backup, Writing
    <2>2. disk[job.char].main \in File /\ job.char \in Chars /\ Torn \in File
      BY <2>1, WritingHas, Histories, Constants
    <2>3. disk' \in [Chars -> [main : File, bak : File]]
      <3>1. \/ disk' = disk
            \/ disk' = [disk EXCEPT ![job.char].bak = disk[job.char].main]
            \/ disk' = [disk EXCEPT ![job.char].bak = Torn]
        BY <1>7 DEF Backup
      <3>2. QED
        BY <1>0, <2>2, <3>1, DiskTyped DEF RestTyped
    <2>4. RestTyped'
      BY <1>0, <1>7, <2>3 DEF Backup, RestTyped, counters
    <2>5. CASE pc' = "promote" /\ UNCHANGED <<context, job, games>>
      BY <1>0, <2>1, <2>4, <2>5 DEF ContextTyped, WorkTyped, GamesTyped, Writing
    <2>6. CASE Finish(FALSE)
      BY <1>a, <1>b, <2>1, <2>4, <2>6
    <2>7. QED
      BY <1>7, <2>5, <2>6 DEF Backup
  <1>8. CASE Promote
    <2>1. pc \in Writing /\ session' = session /\ cache' = cache
      BY <1>8 DEF Promote, Writing
    <2>2. Current(job.history) \in File /\ Absent \in File /\ job.char \in Chars
      BY <2>1, WritingHas, Constants
    <2>3. disk' \in [Chars -> [main : File, bak : File]]
      <3>1. \/ disk' = disk
            \/ disk' = [disk EXCEPT ![job.char].main = Current(job.history)]
            \/ disk' = [disk EXCEPT ![job.char].main = Absent]
        BY <1>8 DEF Promote
      <3>2. QED
        BY <1>0, <2>2, <3>1, DiskTyped DEF RestTyped
    <2>4. RestTyped'
      BY <1>0, <1>8, <2>3 DEF Promote, RestTyped, counters
    <2>5. CASE pc' = "fallback" /\ UNCHANGED <<context, job, games>>
      BY <1>0, <2>1, <2>4, <2>5 DEF ContextTyped, WorkTyped, GamesTyped, Writing
    <2>6. CASE Finish(TRUE)
      BY <1>a, <1>b, <2>1, <2>4, <2>6
    <2>7. QED
      BY <1>8, <2>5, <2>6 DEF Promote
  <1>9. CASE Fallback
    <2>1. pc \in Writing /\ session' = session /\ cache' = cache /\ Finish(FALSE)
      BY <1>9 DEF Fallback, Writing
    <2>2. disk[job.char].bak \in File /\ job.char \in Chars
      BY <2>1, WritingHas, Histories
    <2>3. disk' \in [Chars -> [main : File, bak : File]]
      BY <1>0, <1>9, <2>2, DiskTyped DEF Fallback, RestTyped
    <2>4. RestTyped'
      BY <1>0, <1>9, <2>3 DEF Fallback, RestTyped, counters
    <2>5. QED
      BY <1>a, <1>b, <2>1, <2>4
  <1>10. CASE Crash
    <2>1. disk' \in [Chars -> [main : File, bak : File]]
      <3>1. \/ disk' = disk
            \/ pc \in Writing /\ \E main, bak \in File :
                    disk' = [disk EXCEPT ![job.char] = [main |-> main, bak |-> bak]]
        BY <1>10, CrashForm DEF Crash, Leaves
      <3>2. CASE disk' = disk
        BY <1>0, <3>2 DEF RestTyped
      <3>3. ASSUME pc \in Writing, NEW main \in File, NEW bak \in File,
                   disk' = [disk EXCEPT ![job.char] = [main |-> main, bak |-> bak]]
            PROVE  disk' \in [Chars -> [main : File, bak : File]]
        <4>1. job.char \in Chars
          BY <3>3, WritingHas
        <4>2. QED
          BY <3>3, <4>1, DiskTyped
      <3>4. QED
        BY <3>1, <3>2, <3>3
    <2>2. RestTyped'
      BY <1>0, <1>10, <2>1, SaveBoundAssumption DEF Crash, RestTyped, Run
    <2>3. QED
      BY <1>0, <1>10, <2>2, Constants DEF Crash, ContextTyped, WorkTyped, GamesTyped, NoJob, Writing
  <1>11. CASE UNCHANGED vars
    BY <1>0, <1>11 DEF vars, counters, ContextTyped, WorkTyped, GamesTyped, RestTyped
  <1>12. QED
    BY <1>1, <1>2, <1>3, <1>4, <1>5, <1>6, <1>7, <1>8, <1>9, <1>10, <1>11 DEF Next
----------------------------------------------------------------------------
(* The files, the context and the job fit together.                        *)

LEMMA DiskForm ==
    ASSUME TypeOK, [Next]_vars
    PROVE  disk' = disk \/ \E main, bak \in File : Leaves(main, bak)
  <1>0. /\ Absent \in File /\ Torn \in File
        /\ pc \in Writing => /\ disk[job.char].main \in File /\ disk[job.char].bak \in File
                             /\ Current(job.history) \in File
                             /\ job.char \in Chars
    BY WritingHas, Histories, Constants
  <1>a. pc \in Writing =>
            /\ \A file : [disk EXCEPT ![job.char].main = file] =
                         [disk EXCEPT ![job.char] = [main |-> file, bak |-> disk[job.char].bak]]
            /\ \A file : [disk EXCEPT ![job.char].bak = file] =
                         [disk EXCEPT ![job.char] = [main |-> disk[job.char].main, bak |-> file]]
    <2>1. SUFFICES ASSUME pc \in Writing
                   PROVE  /\ \A file : [disk EXCEPT ![job.char].main = file] =
                              [disk EXCEPT ![job.char] = [main |-> file, bak |-> disk[job.char].bak]]
                          /\ \A file : [disk EXCEPT ![job.char].bak = file] =
                              [disk EXCEPT ![job.char] = [main |-> disk[job.char].main, bak |-> file]]
      OBVIOUS
    <2>2. disk[job.char] = [main |-> disk[job.char].main, bak |-> disk[job.char].bak]
      BY <1>0, <2>1, Histories
    <2>3. QED
      BY <2>2
  <1>1. CASE Backup
    <2>1. pc = "backup" /\ pc \in Writing
      BY <1>1 DEF Backup, Writing
    <2>2. \/ disk' = disk
          \/ disk[job.char].main # Absent
             /\ \/ disk' = [disk EXCEPT ![job.char].bak = disk[job.char].main]
                \/ disk' = [disk EXCEPT ![job.char].bak = Torn]
      BY <1>1 DEF Backup
    <2>3. QED
      BY <1>0, <1>a, <2>1, <2>2 DEF Leaves
  <1>2. CASE Promote
    <2>1. pc = "promote" /\ pc \in Writing
      BY <1>2 DEF Promote, Writing
    <2>2. \/ disk' = disk
          \/ disk' = [disk EXCEPT ![job.char].main = Current(job.history)]
          \/ disk' = [disk EXCEPT ![job.char].main = Absent]
      BY <1>2 DEF Promote
    <2>3. QED
      BY <1>0, <1>a, <2>1, <2>2 DEF Leaves
  <1>3. CASE Fallback
    <2>1. pc = "fallback" /\ pc \in Writing
      BY <1>3 DEF Fallback, Writing
    <2>2. \/ disk' = disk
          \/ disk[job.char].main = Absent
             /\ disk' = [disk EXCEPT ![job.char].main = disk[job.char].bak]
      BY <1>3 DEF Fallback
    <2>3. QED
      BY <1>0, <1>a, <2>1, <2>2 DEF Leaves
  <1>4. CASE Crash
    BY <1>4, CrashForm DEF Crash
  <1>5. CASE ~(Backup \/ Promote \/ Fallback \/ Crash)
    BY <1>5 DEF Next, PreLoadGame, PersistCurrentSave, NewGame, RestoreSession, Play,
                WriteTemporary, vars
  <1>6. QED
    BY <1>1, <1>2, <1>3, <1>4, <1>5

LEMMA FilesStep ==
    ASSUME TypeOK, FilesWell, [Next]_vars
    PROVE  FilesWell'
  <1>1. CASE disk' = disk
    BY <1>1 DEF FilesWell
  <1>2. ASSUME NEW main \in File, NEW bak \in File, Leaves(main, bak)
        PROVE  FilesWell'
    <2>1. job.char \in Chars /\ disk \in [Chars -> [main : File, bak : File]]
      BY <1>2, WritingHas DEF Leaves, TypeOK
    <2>2. \A c \in Chars : FileWell(Absent, c) /\ FileWell(Torn, c) /\ FileWell(Current(job.history), c)
      BY DEF FileWell, Absent, Torn, Current
    <2>3. {main, bak} \subseteq {disk[job.char].main, disk[job.char].bak, Absent, Torn, Current(job.history)}
      BY <1>2 DEF Leaves
    <2>4. FileWell(main, job.char) /\ FileWell(bak, job.char)
      BY <2>1, <2>2, <2>3 DEF FilesWell
    <2>5. \A c \in Chars : disk'[c] = IF c = job.char THEN [main |-> main, bak |-> bak] ELSE disk[c]
      BY <1>2, <2>1 DEF Leaves
    <2>6. \A c \in Chars : FileWell(disk'[c].main, c) /\ FileWell(disk'[c].bak, c)
      BY <2>4, <2>5 DEF FilesWell
    <2>7. QED
      BY <2>6 DEF FilesWell, FileWell
  <1>3. QED
    BY <1>1, <1>2, DiskForm

\* The context that SetCurrentContext sets is that of the character in play.
LEMMA SetWell ==
    ASSUME TypeOK, NEW c \in Chars \cup {0}, NEW num, NEW name,
           SetCurrentContext(c, num, name), running' \in Chars, games' = games,
           c \in {0, running'}, c = 0 => \A n \in DOMAIN games : n.char # running'
    PROVE  ContextWell' /\ JobWell'
  <1>0. context' = [valid |-> TRUE, char |-> c, num |-> num, name |-> name]
    BY SetForm
  <1>1. context.char' = c /\ context.valid' = TRUE /\ running' # 0
    BY <1>0, CharAssumption
  <1>2. CASE c = 0 /\ pc' = "idle" /\ cache' = cache /\ job' = job
    BY <1>1, <1>2 DEF ContextWell, JobWell, Writing
  <1>3. CASE c \in Chars /\ cache[c].loaded /\ pc' = "restore" /\ cache' = cache /\ job' = job
    BY <1>1, <1>3, CharAssumption DEF ContextWell, JobWell, Writing
  <1>4. ASSUME NEW history \in Seq(Entry), LoadsAs(c, history)
        PROVE  ContextWell' /\ JobWell'
    <2>1. c \in Chars /\ c # 0 /\ cache' = [cache EXCEPT ![c] = InMemory(history)]
      BY <1>4, CharAssumption DEF LoadsAs
    <2>2. cache'[c] = InMemory(history) /\ cache'[c].loaded
      BY <2>1 DEF InMemory, TypeOK
    <2>3. pc' \in Writing => pc' = "temp" /\ job' = [char |-> c, history |-> history, save |-> NoName]
      BY <1>4 DEF LoadsAs, Writing
    <2>4. ContextWell'
      BY <1>1, <2>1, <2>2 DEF ContextWell
    <2>5. JobWell'
      BY <1>1, <2>2, <2>3 DEF JobWell
    <2>6. QED
      BY <2>4, <2>5
  <1>5. QED
    BY <1>2, <1>3, <1>4, SetForm

\* The end of UpdateSaveEntry leaves the context of the character it wrote for.
LEMMA FinishWell ==
    ASSUME TypeOK, ContextWell, JobWell, NEW ok \in BOOLEAN, Finish(ok), pc \in Writing,
           UNCHANGED <<session, cache, running, strayed>>
    PROVE  ContextWell' /\ JobWell'
  <1>1. context.char = job.char /\ job.char # 0 /\ context.valid
    BY WritingHas, CharAssumption DEF JobWell
  <1>2. pc' \notin Writing
    BY FinishForm DEF Writing
  <1>3. context.char' = context.char /\ context.valid' = context.valid
    BY FinishForm
  <1>4. JobWell'
    BY <1>2 DEF JobWell
  <1>5. ContextWell'
    BY <1>1, <1>3 DEF ContextWell
  <1>6. QED
    BY <1>4, <1>5

LEMMA WellStep ==
    ASSUME HistoryInv, [Next]_vars
    PROVE  ContextWell' /\ JobWell'
  <1>0. TypeOK /\ ContextWell /\ JobWell
    BY DEF HistoryInv
  <1>a. running \in Chars \cup {0}
    BY <1>0 DEF TypeOK
  <1>b. TRUE \in BOOLEAN /\ FALSE \in BOOLEAN
    OBVIOUS
  <1>1. ASSUME NEW name \in GameNames, PreLoadGame(name)
        PROVE  ContextWell' /\ JobWell'
    <2>1. pc = "idle" /\ running' = name.char /\ games' = games /\ name.char \in Chars /\ name.char # 0
      BY <1>1, NamesAre, CharAssumption DEF PreLoadGame
    <2>2. CASE /\ UNCHANGED <<context, session, cache, job, pc>>
               /\ strayed' = (strayed \/ (context.valid /\ context.char # name.char))
      <3>1. JobWell'
        BY <2>1, <2>2 DEF JobWell, Writing
      <3>2. ~strayed' => ~context.valid \/ context.char = name.char
        BY <2>2
      <3>3. ContextWell'
        BY <1>0, <2>1, <2>2, <3>2 DEF ContextWell
      <3>4. QED
        BY <3>1, <3>3
    <2>3. ASSUME NEW num \in HeaderNumbers(name), SetCurrentContext(name.char, num, name)
          PROVE  ContextWell' /\ JobWell'
      BY <1>0, <2>1, <2>3, SetWell
    <2>4. CASE ClearContext /\ UNCHANGED <<cache, job, pc, strayed>>
      <3>1. context' = NoContext
        BY <2>4 DEF ClearContext
      <3>2. QED
        BY <2>1, <2>4, <3>1 DEF ContextWell, JobWell, NoContext, Writing
    <2>5. QED
      BY <1>1, <2>2, <2>3, <2>4 DEF PreLoadGame
  <1>2. ASSUME NEW name \in GameNames, PersistCurrentSave(name)
        PROVE  ContextWell' /\ JobWell'
    <2>1. /\ pc = "idle" /\ running # 0 /\ name.char = running
          /\ name.kind = "Quick" \/ name \notin DOMAIN games
          /\ UNCHANGED <<session, running, strayed>>
      BY <1>2 DEF PersistCurrentSave
    <2>2. CASE ~context.valid
      <3>1. UNCHANGED <<context, cache, job, pc>>
        BY <1>2, <2>2 DEF PersistCurrentSave
      <3>2. QED
        BY <1>0, <2>1, <2>2, <3>1 DEF ContextWell, JobWell, Writing
    <2>3. CASE context.valid
      <3> DEFINE c == IF context.char = 0 THEN name.char ELSE context.char
                 entry == [num |-> SavedNumber(name), name |-> name, data |-> session]
                 history == Updated(cache[c].history, entry)
      <3>1. c \in Chars /\ c # 0
        BY <1>0, NamesAre, CharAssumption DEF TypeOK
      <3>2. entry \in Entry
        BY <1>0, NamesAre DEF TypeOK, SavedNumber, Entry
      <3>3. /\ context' = [context EXCEPT !.char = c]
            /\ cache' = [cache EXCEPT ![c] = InMemory(history)]
            /\ job' = [char |-> c, history |-> history, save |-> name]
            /\ pc' = "temp" /\ games' = games
        BY <1>2, <2>3 DEF PersistCurrentSave
      <3>4. name.kind = "Save" => Holds(history, name, session)
        <4>1. SUFFICES ASSUME name.kind = "Save" PROVE Holds(history, name, session)
          OBVIOUS
        <4>2. entry.num = name.num /\ entry.name = name /\ entry.data = session /\ name # NoName
          BY <4>1, NamesAre DEF SavedNumber
        <4>3. cache[c].history \in Seq(Entry)
          BY <1>0, <3>1, Histories
        <4> HIDE DEF entry, c
        <4>4. QED
          BY <3>2, <4>2, <4>3, NewHolds
      <3>5. ~strayed => c = running
        BY <1>0, <2>1, <2>3 DEF ContextWell
      <3> HIDE DEF c, history
      <3>6. context.char' = c /\ context.valid' /\ cache'[c] = InMemory(history) /\ cache'[c].loaded
        BY <1>0, <2>3, <3>1, <3>3 DEF TypeOK, InMemory
      <3>7. ContextWell'
        BY <2>1, <3>1, <3>3, <3>5, <3>6 DEF ContextWell
      <3>8. JobWell'
        BY <2>1, <3>3, <3>4, <3>5, <3>6 DEF JobWell
      <3>9. QED
        BY <3>7, <3>8
    <2>4. QED
      BY <2>2, <2>3
  <1>3. ASSUME NEW c \in Chars, NewGame(c)
        PROVE  ContextWell' /\ JobWell'
    BY <1>0, <1>3, SetWell DEF NewGame
  <1>4. CASE RestoreSession
    BY <1>0, <1>4 DEF RestoreSession, ContextWell, JobWell, Writing
  <1>5. CASE Play
    BY <1>0, <1>5 DEF Play, ContextWell, JobWell, Writing
  <1>6. CASE WriteTemporary
    <2>1. pc \in Writing /\ UNCHANGED <<session, cache, running, strayed>>
      BY <1>6 DEF WriteTemporary, Writing
    <2>2. CASE pc' = "backup" /\ UNCHANGED <<context, job, games>>
      BY <1>0, <2>1, <2>2 DEF ContextWell, JobWell
    <2>3. QED
      BY <1>0, <1>6, <1>b, <2>1, <2>2, FinishWell DEF WriteTemporary
  <1>7. CASE Backup
    <2>1. pc \in Writing /\ UNCHANGED <<session, cache, running, strayed>> /\ job.char \in Chars
      BY <1>0, <1>7, WritingHas DEF Backup, Writing
    <2>2. CASE /\ pc' = "promote" /\ UNCHANGED <<context, job, games>>
               /\ \/ disk' = [disk EXCEPT ![job.char].bak = disk[job.char].main]
                  \/ disk[job.char].main = Absent /\ disk' = disk
      <3>1. disk'[job.char].bak = disk'[job.char].main \/ disk'[job.char].main = Absent
        BY <1>0, <2>1, <2>2 DEF TypeOK
      <3>2. QED
        BY <1>0, <2>1, <2>2, <3>1 DEF ContextWell, JobWell
    <2>3. CASE Finish(FALSE)
      BY <1>0, <1>b, <2>1, <2>3, FinishWell
    <2>4. QED
      BY <1>7, <2>2, <2>3 DEF Backup
  <1>8. CASE Promote
    <2>1. pc \in Writing /\ UNCHANGED <<session, cache, running, strayed>>
      BY <1>8 DEF Promote, Writing
    <2>2. CASE pc' = "fallback" /\ UNCHANGED <<context, job, games>>
      BY <1>0, <2>1, <2>2 DEF ContextWell, JobWell
    <2>3. CASE Finish(TRUE)
      BY <1>0, <1>b, <2>1, <2>3, FinishWell
    <2>4. QED
      BY <1>8, <2>2, <2>3 DEF Promote
  <1>9. CASE Fallback
    <2>1. pc \in Writing /\ UNCHANGED <<session, cache, running, strayed>> /\ Finish(FALSE)
      BY <1>9 DEF Fallback, Writing
    <2>2. QED
      BY <1>0, <1>b, <2>1, FinishWell
  <1>10. CASE Crash
    BY <1>10 DEF Crash, NoContext, ContextWell, JobWell, Writing
  <1>11. CASE UNCHANGED vars
    BY <1>0, <1>11 DEF vars, ContextWell, JobWell
  <1>12. QED
    BY <1>1, <1>2, <1>3, <1>4, <1>5, <1>6, <1>7, <1>8, <1>9, <1>10, <1>11 DEF Next

LEMMA HistoryInit == ASSUME Init PROVE HistoryInv
  <1>1. FilesWell
    BY DEF Init, FilesWell, FileWell, Absent, Torn
  <1>2. ContextWell /\ JobWell
    BY DEF Init, ContextWell, JobWell, NoContext, Writing
  <1>3. ContextTyped
    BY Constants DEF Init, ContextTyped
  <1>4. WorkTyped
    BY Constants DEF Init, WorkTyped, Writing, NoJob
  <1>5. GamesTyped
    <2>1. /\ DOMAIN games = {SaveName(c, 1, 0) : c \in LegacyChars}
          /\ \A n \in DOMAIN games : games[n] = [data |-> [char |-> n.char, stamp |-> 0], ok |-> TRUE]
      BY DEF Init
    <2>2. \A c \in LegacyChars : SaveName(c, 1, 0) \in GameNames /\ SaveName(c, 1, 0).char \in Chars
      BY CharAssumption, SaveBoundAssumption DEF SaveName, GameNames
    <2>3. \A c \in Chars : [data |-> [char |-> c, stamp |-> 0], ok |-> TRUE] \in [data : Data, ok : BOOLEAN]
      BY SaveBoundAssumption DEF Data
    <2>4. QED
      <3>1. DOMAIN games \subseteq GameNames /\ \A n \in DOMAIN games : n.char \in Chars
        BY <2>1, <2>2
      <3>2. \A n \in DOMAIN games : games[n] \in [data : Data, ok : BOOLEAN]
        BY <2>1, <2>3, <3>1
      <3>3. QED
        BY <3>1, <3>2 DEF GamesTyped
  <1>6. RestTyped
    <2>1. \A c \in Chars : [status |-> "legacy", history |-> Legacy(c)] \in File
      BY Constants DEF File
    <2>2. QED
      <3>1. disk \in [Chars -> [main : File, bak : File]]
        BY <2>1, Constants DEF Init
      <3>2. QED
        <4>1. running = 0 /\ strayed = FALSE /\ changes = 0 /\ saves = 0 /\ runs = 0
          BY DEF Init
        <4>2. changes \in 0..MaxChanges /\ saves \in 0..MaxSaves /\ runs \in 0..MaxRuns
          BY <4>1, SaveBoundAssumption
        <4>3. running \in Chars \cup {0} /\ strayed \in BOOLEAN
          BY <4>1
        <4>4. QED
          BY <3>1, <4>2, <4>3 DEF RestTyped
  <1>7. QED
    BY <1>1, <1>2, <1>3, <1>4, <1>5, <1>6, TypeParts DEF HistoryInv

LEMMA HistoryStep == ASSUME HistoryInv, [Next]_vars PROVE HistoryInv'
  <1>1. TypeOK'
    BY TypeStep DEF HistoryInv, ContextWell
  <1>2. FilesWell'
    BY FilesStep DEF HistoryInv
  <1>3. QED
    BY <1>1, <1>2, WellStep DEF HistoryInv
----------------------------------------------------------------------------
(* Nothing of another character's game.                                    *)

OwnData(history, c) == \A i \in DOMAIN history : history[i].data.char \in {c, 0}

LEMMA StaysStrayed == ASSUME TypeOK, [Next]_vars PROVE strayed => strayed'
  BY DEF Next, PreLoadGame, PersistCurrentSave, NewGame, RestoreSession, Play, WriteTemporary,
         Backup, Promote, Fallback, Crash, vars

LEMMA ForeignParts ==
    NoForeignData <=> (~strayed =>
        /\ \A c \in Chars : /\ OwnData(cache[c].history, c)
                            /\ OwnData(disk[c].main.history, c)
                            /\ OwnData(disk[c].bak.history, c)
        /\ context.valid => session.char \in {running, 0})
  BY DEF NoForeignData, OwnData

\* No step puts the data of one character into the files of another.
LEMMA OwnFiles ==
    ASSUME HistoryInv, NoForeignData, ~strayed, [Next]_vars
    PROVE  \A c \in Chars : OwnData(disk'[c].main.history, c) /\ OwnData(disk'[c].bak.history, c)
  <1>0. TypeOK /\ JobWell
    BY DEF HistoryInv
  <1>1. \A c \in Chars : /\ OwnData(cache[c].history, c)
                         /\ OwnData(disk[c].main.history, c)
                         /\ OwnData(disk[c].bak.history, c)
    BY ForeignParts
  <1>2. CASE disk' = disk
    BY <1>1, <1>2
  <1>3. ASSUME NEW main \in File, NEW bak \in File, Leaves(main, bak)
        PROVE  \A c \in Chars : OwnData(disk'[c].main.history, c) /\ OwnData(disk'[c].bak.history, c)
    <2>1. pc \in Writing /\ job.char \in Chars
      BY <1>0, <1>3, WritingHas DEF Leaves
    <2>2. OwnData(job.history, job.char)
      BY <1>0, <1>1, <2>1 DEF JobWell, InMemory
    <2>3. /\ Current(job.history).history = job.history
          /\ OwnData(Absent.history, job.char) /\ OwnData(Torn.history, job.char)
      BY DEF Current, Absent, Torn, OwnData
    <2>4. {main, bak} \subseteq {disk[job.char].main, disk[job.char].bak, Absent, Torn, Current(job.history)}
      BY <1>3 DEF Leaves
    <2>5. OwnData(main.history, job.char) /\ OwnData(bak.history, job.char)
      BY <1>1, <2>1, <2>2, <2>3, <2>4
    <2>6. \A c \in Chars : disk'[c] = IF c = job.char THEN [main |-> main, bak |-> bak] ELSE disk[c]
      BY <1>0, <1>3, <2>1 DEF Leaves, TypeOK
    <2>7. QED
      BY <1>1, <2>5, <2>6
  <1>4. QED
    BY <1>0, <1>2, <1>3, DiskForm

\* Nor what is in memory, when a context is set.
LEMMA OwnSet ==
    ASSUME HistoryInv, NoForeignData, ~strayed, NEW c \in Chars \cup {0}, NEW num, NEW name,
           SetCurrentContext(c, num, name)
    PROVE  /\ \A d \in Chars : OwnData(cache'[d].history, d)
           /\ session'.char = 0
  <1>0. TypeOK /\ FilesWell
    BY DEF HistoryInv
  <1>1. \A d \in Chars : /\ OwnData(cache[d].history, d)
                         /\ OwnData(disk[d].main.history, d)
                         /\ OwnData(disk[d].bak.history, d)
    BY ForeignParts
  <1>2. session'.char = 0
    BY <1>0, SetForm DEF Blank
  <1>3. CASE cache' = cache
    BY <1>1, <1>2, <1>3
  <1>4. ASSUME NEW history \in Seq(Entry), LoadsAs(c, history)
        PROVE  \A d \in Chars : OwnData(cache'[d].history, d)
    <2>1. c \in Chars /\ cache' = [cache EXCEPT ![c] = InMemory(history)]
      BY <1>4 DEF LoadsAs
    <2>2. Readable(disk[c]).history \in Seq(Entry)
          /\ OwnData(Readable(disk[c]).history, c)
      <3>1. OwnData(Absent.history, c)
        BY DEF Absent, OwnData
      <3>2. Readable(disk[c]) \in {disk[c].main, disk[c].bak, Absent}
            /\ Readable(disk[c]).history \in Seq(Entry)
        BY <1>0, <2>1, Histories
      <3>3. QED
        BY <1>1, <2>1, <3>1, <3>2
    <2>3. OwnData(history, c)
      <3>1. PICK before \in Seq(Entry) : before = Readable(disk[c]).history
        BY <2>2
      <3>2. CASE history = before
        BY <2>2, <3>1, <3>2
      <3>3. ASSUME NEW e \in Entry, history = Updated(before, e),
                   \E i \in DOMAIN before : e = before[i]
            PROVE  OwnData(history, c)
        <4>1. e.data.char \in {c, 0}
          BY <2>2, <3>1, <3>3 DEF OwnData
        <4>2. \A i \in DOMAIN history : history[i] = e \/ \E j \in DOMAIN before : history[i] = before[j]
          BY <3>3, UpdatedFrom
        <4>3. QED
          BY <2>2, <3>1, <4>1, <4>2 DEF OwnData
      <3>4. QED
        BY <1>4, <3>1, <3>2, <3>3 DEF LoadsAs
    <2>4. \A d \in Chars : cache'[d].history = IF d = c THEN history ELSE cache[d].history
      BY <1>0, <2>1 DEF TypeOK, InMemory
    <2>5. QED
      BY <1>1, <2>3, <2>4
  <1>5. QED
    BY <1>0, <1>2, <1>3, <1>4, SetForm

LEMMA ForeignStep ==
    ASSUME HistoryInv, NoForeignData, [Next]_vars
    PROVE  NoForeignData'
  <1>0. TypeOK /\ ContextWell /\ JobWell
    BY DEF HistoryInv
  <1> DEFINE Memory == \A c \in Chars : OwnData(cache[c].history, c)
             Playing == context.valid => session.char \in {running, 0}
  <1>1. SUFFICES ASSUME ~strayed, ~strayed'
                 PROVE  Memory' /\ Playing'
    <2>1. ~strayed' => ~strayed
      BY <1>0, StaysStrayed
    <2>2. NoForeignData' <=> (~strayed' =>
            /\ \A c \in Chars : /\ OwnData(cache'[c].history, c)
                                /\ OwnData(disk'[c].main.history, c)
                                /\ OwnData(disk'[c].bak.history, c)
            /\ context'.valid => session'.char \in {running', 0})
      BY DEF NoForeignData, OwnData
    <2>3. QED
      BY <1>1, <2>1, <2>2, OwnFiles
  <1>2. Memory /\ Playing
    BY <1>1, ForeignParts
  <1>3. ASSUME NEW name \in GameNames, PreLoadGame(name)
        PROVE  Memory' /\ Playing'
    <2>1. CASE /\ UNCHANGED <<context, session, cache, job, pc>>
               /\ strayed' = (strayed \/ (context.valid /\ context.char # name.char))
      <3>1. context.valid => context.char = name.char /\ name.char # 0 /\ running' = name.char
        BY <1>1, <1>3, <2>1, NamesAre, CharAssumption DEF PreLoadGame
      <3>2. context.valid => session.char \in {running', 0}
        BY <1>0, <1>1, <1>2, <3>1 DEF ContextWell
      <3>3. QED
        BY <1>2, <2>1, <3>2
    <2>2. ASSUME NEW num \in HeaderNumbers(name), SetCurrentContext(name.char, num, name)
          PROVE  Memory' /\ Playing'
      BY <1>1, <2>2, NamesAre, OwnSet
    <2>3. CASE ClearContext /\ UNCHANGED <<cache, job, pc, strayed>>
      BY <1>2, <2>3 DEF ClearContext, NoContext
    <2>4. QED
      BY <1>3, <2>1, <2>2, <2>3 DEF PreLoadGame
  <1>4. ASSUME NEW name \in GameNames, PersistCurrentSave(name)
        PROVE  Memory' /\ Playing'
    <2>1. /\ pc = "idle" /\ running # 0 /\ name.char = running
          /\ UNCHANGED <<session, running, strayed>>
      BY <1>4 DEF PersistCurrentSave
    <2>2. CASE ~context.valid
      BY <1>2, <1>4, <2>2 DEF PersistCurrentSave
    <2>3. CASE context.valid
      <3> DEFINE c == IF context.char = 0 THEN name.char ELSE context.char
                 entry == [num |-> SavedNumber(name), name |-> name, data |-> session]
                 history == Updated(cache[c].history, entry)
      <3>1. c = running /\ c \in Chars
        BY <1>0, <1>1, <2>1, <2>3, NamesAre DEF ContextWell
      <3>2. entry \in Entry
        BY <1>0, NamesAre DEF TypeOK, SavedNumber, Entry
      <3>3. /\ context' = [context EXCEPT !.char = c]
            /\ cache' = [cache EXCEPT ![c] = InMemory(history)]
        BY <1>4, <2>3 DEF PersistCurrentSave
      <3>4. session.char \in {c, 0}
        BY <1>2, <2>3, <3>1
      <3>5. OwnData(history, c)
        <4>1. PICK before \in Seq(Entry) : before = cache[c].history
          BY <1>0, <3>1, Histories
        <4>2. OwnData(before, c)
          BY <1>2, <3>1, <4>1
        <4>3. entry.data.char \in {c, 0}
          BY <3>4
        <4>4. \A i \in DOMAIN Updated(before, entry) :
                \/ Updated(before, entry)[i] = entry
                \/ \E j \in DOMAIN before : Updated(before, entry)[i] = before[j]
          BY <3>2, UpdatedFrom
        <4> HIDE DEF entry, c
        <4>5. QED
          BY <4>1, <4>2, <4>3, <4>4 DEF OwnData
      <3> HIDE DEF c, history
      <3>6. \A d \in Chars : cache'[d].history = IF d = c THEN history ELSE cache[d].history
        BY <1>0, <3>1, <3>3 DEF TypeOK, InMemory
      <3>7. Memory'
        BY <1>2, <3>5, <3>6
      <3>8. Playing'
        BY <2>1, <3>1, <3>4
      <3>9. QED
        BY <3>7, <3>8
    <2>4. QED
      BY <2>2, <2>3
  <1>5. ASSUME NEW c \in Chars, NewGame(c)
        PROVE  Memory' /\ Playing'
    BY <1>1, <1>5, OwnSet DEF NewGame
  <1>6. CASE RestoreSession
    <2>1. context.char \in Chars /\ context.char # 0
      BY <1>0, <1>6, CharAssumption DEF RestoreSession, ContextWell, TypeOK
    <2>2. PICK history \in Seq(Entry) : history = cache[context.char].history
      BY <1>0, <2>1, Histories
    <2>3. session' = Restored(history, context.num, context.name)
      BY <1>6, <2>2 DEF RestoreSession
    <2>4. OwnData(history, context.char)
      BY <1>2, <2>1, <2>2
    <2>5. session'.char \in {context.char, 0}
      BY <2>3, <2>4, RestoredFrom DEF OwnData, Blank
    <2>6. context.valid => context.char = running
      BY <1>0, <1>1, <2>1 DEF ContextWell
    <2>7. QED
      BY <1>2, <1>6, <2>5, <2>6 DEF RestoreSession
  <1>7. CASE Play
    BY <1>2, <1>7 DEF Play
  <1>8. ASSUME pc \in Writing, UNCHANGED <<session, cache, running>>,
               (\E ok \in BOOLEAN : Finish(ok)) \/ context' = context
        PROVE  Memory' /\ Playing'
    <2>1. context.valid' = context.valid
      BY <1>0, <1>8, FinishForm
    <2>2. QED
      BY <1>2, <1>8, <2>1
  <1>9. CASE WriteTemporary \/ Backup \/ Promote \/ Fallback
    BY <1>8, <1>9 DEF WriteTemporary, Backup, Promote, Fallback, Writing
  <1>10. CASE Crash
    <2>1. /\ cache' = [c \in Chars |-> NotLoaded]
          /\ ~context'.valid
      BY <1>10 DEF Crash, NoContext
    <2>2. QED
      BY <2>1 DEF NotLoaded, OwnData
  <1>11. CASE UNCHANGED vars
    BY <1>2, <1>11 DEF vars
  <1>12. QED
    BY <1>3, <1>4, <1>5, <1>6, <1>7, <1>9, <1>10, <1>11 DEF Next
----------------------------------------------------------------------------
(* What was written is kept.                                               *)

\* A good file is read as it is, its backup only where it is gone.
LEMMA ReadsAs ==
    ASSUME NEW c \in Chars, NEW main \in File, NEW bak \in File,
           FileWell(main, c), FileWell(bak, c), main # Torn, main = Absent => bak # Torn
    PROVE  Readable([main |-> main, bak |-> bak]) = IF main = Absent THEN bak ELSE main
  <1>1. main.status \in {"absent", "torn", "legacy", "current"}
        /\ bak.status \in {"absent", "torn", "legacy", "current"}
    BY DEF File
  <1>2. main # Absent <=> Parses(main)
    BY <1>1 DEF FileWell, Parses, Absent
  <1>3. main = Absent => (bak = Absent \/ Parses(bak))
    BY <1>1 DEF FileWell, Parses
  <1>4. QED
    BY <1>2, <1>3 DEF Readable

\* A step of the writing leaves what can be read of a character as it was, or
\* puts the history that is being written there; so does a crash in it.
LEMMA ReadableStep ==
    ASSUME HistoryInv, NothingTorn, TornRestore = FALSE, [Next]_vars, NEW c \in Chars
    PROVE  /\ disk'[c].main # Torn /\ (disk'[c].main = Absent => disk'[c].bak # Torn)
           /\ \/ Readable(disk'[c]) = Readable(disk[c])
              \/ /\ pc = "promote" /\ c = job.char
                 /\ Readable(disk'[c]) = Current(job.history)
           /\ Promote /\ c = job.char /\ disk'[c].main = Current(job.history)
                => Readable(disk'[c]) = Current(job.history)
  <1>0. TypeOK /\ FilesWell /\ JobWell /\ TypeOK' /\ FilesWell'
    BY HistoryStep DEF HistoryInv
  <1>1. /\ disk[c].main \in File /\ disk[c].bak \in File
        /\ disk[c] = [main |-> disk[c].main, bak |-> disk[c].bak]
        /\ FileWell(disk[c].main, c) /\ FileWell(disk[c].bak, c)
    BY <1>0, Histories DEF FilesWell
  <1>2. Readable(disk[c]) = IF disk[c].main = Absent THEN disk[c].bak ELSE disk[c].main
    BY <1>1, ReadsAs DEF NothingTorn
  <1>3. FileWell(Current(job.history), c) /\ Current(job.history) # Torn /\ Current(job.history) # Absent
    BY DEF FileWell, Current, Torn, Absent
  <1>4. CASE disk'[c] = disk[c]
    BY <1>1, <1>2, <1>3, <1>4 DEF NothingTorn
  <1>5. ASSUME NEW main \in File, NEW bak \in File, Leaves(main, bak), c = job.char
        PROVE  /\ disk'[c].main # Torn /\ (disk'[c].main = Absent => disk'[c].bak # Torn)
               /\ \/ Readable(disk'[c]) = Readable(disk[c])
                  \/ /\ pc = "promote" /\ c = job.char
                     /\ Readable(disk'[c]) = Current(job.history)
               /\ disk'[c].main = Current(job.history) => Readable(disk'[c]) = Current(job.history)
    <2>1. disk'[c] = [main |-> main, bak |-> bak]
      BY <1>0, <1>5 DEF Leaves, TypeOK
    <2>2. FileWell(main, c) /\ FileWell(bak, c)
      <3>1. FileWell(disk[c].main, c)' /\ FileWell(disk[c].bak, c)'
        BY <1>0 DEF FilesWell
      <3>2. QED
        BY <2>1, <3>1 DEF FileWell
    <2>3. main # Torn /\ (main = Absent => bak # Torn)
      <3>1. disk[c].main # Torn /\ (disk[c].main = Absent => disk[c].bak # Torn)
        BY DEF NothingTorn
      <3>2. Absent # Torn
        BY DEF Absent, Torn
      <3>3. CASE pc = "backup"
        BY <1>5, <3>1, <3>3 DEF Leaves
      <3>4. CASE pc = "promote"
        BY <1>0, <1>3, <1>5, <3>1, <3>2, <3>4 DEF Leaves, JobWell
      <3>5. CASE pc = "fallback"
        BY <1>5, <3>1, <3>5 DEF Leaves
      <3>6. QED
        BY <1>5, <3>3, <3>4, <3>5 DEF Leaves
    <2>4. Readable(disk'[c]) = IF main = Absent THEN bak ELSE main
      BY <2>1, <2>2, <2>3, ReadsAs
    <2>5. \/ (IF main = Absent THEN bak ELSE main) = Readable(disk[c])
          \/ pc = "promote" /\ main = Current(job.history)
      BY <1>0, <1>2, <1>5 DEF Leaves, JobWell
    <2>6. QED
      BY <1>3, <1>5, <2>1, <2>3, <2>4, <2>5
  <1>6. ASSUME NEW main \in File, NEW bak \in File, Leaves(main, bak), c # job.char
        PROVE  disk'[c] = disk[c]
    BY <1>0, <1>6 DEF Leaves, TypeOK
  <1>7. CASE disk' = disk
    BY <1>4, <1>7
  <1>8. QED
    BY <1>0, <1>4, <1>5, <1>6, <1>7, DiskForm

\* A save is written by the replacement of the file, and from then on is as it was
\* written.
LEMMA WrittenStep ==
    ASSUME HistoryInv, [Next]_vars, NEW name \in GameNames,
           name \in DOMAIN games', games'[name].ok
    PROVE  \/ name \in DOMAIN games /\ games[name].ok /\ games'[name] = games[name]
           \/ /\ Promote /\ pc \in Writing /\ cache' = cache /\ strayed' = strayed
              /\ disk' = [disk EXCEPT ![job.char].main = Current(job.history)]
              /\ name = job.save /\ name.kind = "Save"
              /\ games'[name].data = session
  <1>0. TypeOK
    BY DEF HistoryInv
  <1>1. ASSUME NEW n \in GameNames, games' = Recorded(n, FALSE)
        PROVE  name \in DOMAIN games /\ games[name].ok /\ games'[name] = games[name]
    <2>1. DOMAIN games' = DOMAIN games \cup {n} /\ ~games'[n].ok
          /\ \A m \in DOMAIN games \ {n} : games'[m] = games[m]
      BY <1>1 DEF Recorded
    <2>2. QED
      BY <2>1
  <1>2. CASE games' = games
    BY <1>2
  <1>3. ASSUME Finish(FALSE), pc \in Writing
        PROVE  name \in DOMAIN games /\ games[name].ok /\ games'[name] = games[name]
    <2>1. CASE job.save = NoName
      BY <1>3, <2>1 DEF Finish
    <2>2. CASE job.save # NoName
      <3>1. games' = Recorded(job.save, FALSE)
        BY <1>3, <2>2 DEF Finish, Recorded
      <3>2. job.save \in GameNames
        BY <1>0, <1>3, <2>2, WritingHas
      <3>3. QED
        BY <1>1, <3>1, <3>2
    <2>3. QED
      BY <2>1, <2>2
  <1>4. CASE Promote
    <2>1. pc \in Writing /\ cache' = cache /\ strayed' = strayed
      BY <1>4 DEF Promote, Writing
    <2>2. CASE games' = games
      BY <2>2
    <2>3. CASE Finish(TRUE) /\ disk' = [disk EXCEPT ![job.char].main = Current(job.history)]
      <3>1. CASE job.save = NoName
        BY <2>3, <3>1 DEF Finish
      <3>2. CASE job.save # NoName
        <4>1. job.save \in GameNames
          BY <1>0, <2>1, <3>2, WritingHas
        <4>2. CASE job.save.kind = "Save"
          <5>1. games' = Recorded(job.save, TRUE)
            BY <2>3, <3>2, <4>2 DEF Finish, Recorded
          <5>2. /\ DOMAIN games' = DOMAIN games \cup {job.save}
                /\ games'[job.save] = [data |-> session, ok |-> TRUE]
                /\ \A m \in DOMAIN games \ {job.save} : games'[m] = games[m]
            BY <5>1 DEF Recorded
          <5>3. CASE name = job.save
            BY <1>4, <2>1, <2>3, <4>2, <5>2, <5>3
          <5>4. CASE name # job.save
            BY <5>2, <5>4
          <5>5. QED
            BY <5>3, <5>4
        <4>3. CASE job.save.kind # "Save"
          <5>1. games' = Recorded(job.save, FALSE)
            BY <2>3, <3>2, <4>3 DEF Finish, Recorded
          <5>2. QED
            BY <1>1, <4>1, <5>1
        <4>4. QED
          BY <4>2, <4>3
      <3>3. QED
        BY <3>1, <3>2
    <2>4. QED
      BY <1>4, <2>2, <2>3 DEF Promote
  <1>5. CASE WriteTemporary \/ Backup \/ Fallback
    <2>1. pc \in Writing /\ (Finish(FALSE) \/ games' = games)
      BY <1>5 DEF WriteTemporary, Backup, Fallback, Writing
    <2>2. QED
      BY <1>2, <1>3, <2>1
  <1>6. ASSUME NEW n \in GameNames, PersistCurrentSave(n)
        PROVE  name \in DOMAIN games /\ games[name].ok /\ games'[name] = games[name]
    BY <1>1, <1>2, <1>6 DEF PersistCurrentSave
  <1>7. CASE ~(Promote \/ WriteTemporary \/ Backup \/ Fallback
               \/ \E n \in GameNames : PersistCurrentSave(n))
    <2>1. games' = games
      BY <1>7 DEF Next, PreLoadGame, NewGame, RestoreSession, Play, Crash, vars
    <2>2. QED
      BY <1>2, <2>1
  <1>8. QED
    BY <1>4, <1>5, <1>6, <1>7

\* The histories in memory lose no snapshot that was written.
LEMMA MemoryKept ==
    ASSUME HistoryInv, KeptInv, ~strayed, [Next]_vars,
           NEW name \in Written, name \notin Migrated, cache'[name.char].loaded
    PROVE  Holds(cache'[name.char].history, name, games[name].data)
  <1>0. TypeOK /\ FilesWell /\ ContextWell /\ JobWell /\ name \in GameNames /\ name \in DOMAIN games
    BY DEF HistoryInv, Written, TypeOK
  <1>1. /\ name.kind = "Save" /\ name.char \in Chars /\ name # NoName
        /\ Holds(Readable(disk[name.char]).history, name, games[name].data)
        /\ cache[name.char].loaded => Holds(cache[name.char].history, name, games[name].data)
    BY <1>0, NamesAre DEF KeptInv, SnapshotsKept
  <1>2. CASE cache' = cache
    BY <1>1, <1>2
  <1>3. ASSUME NEW c \in Chars \cup {0}, NEW num, NEW n, SetCurrentContext(c, num, n)
        PROVE  Holds(cache'[name.char].history, name, games[name].data)
    <2>1. ASSUME NEW history \in Seq(Entry), LoadsAs(c, history)
          PROVE  Holds(cache'[name.char].history, name, games[name].data)
      <3>1. cache'[name.char] = IF name.char = c THEN InMemory(history) ELSE cache[name.char]
        BY <1>0, <1>1, <2>1 DEF LoadsAs, TypeOK
      <3>2. CASE name.char # c
        BY <1>1, <3>1, <3>2
      <3>3. CASE name.char = c
        <4>1. Readable(disk[c]).status # "legacy"
          <5>1. SUFFICES ASSUME Readable(disk[c]).status = "legacy" PROVE FALSE
            OBVIOUS
          <5>2. Readable(disk[c]) \in {disk[c].main, disk[c].bak, Absent} /\ Absent.status # "legacy"
            BY <1>0, <1>1, <3>3, Histories DEF Absent
          <5>3. Readable(disk[c]).history = Legacy(c)
            BY <1>0, <1>1, <3>3, <5>1, <5>2 DEF FilesWell, FileWell
          <5>4. \A i \in DOMAIN Legacy(c) : Legacy(c)[i].name = NoName
            BY DEF Legacy
          <5>5. Own(Legacy(c), name) = {}
            BY <1>1, <5>4 DEF Own
          <5>6. QED
            BY <1>1, <3>3, <5>3, <5>5 DEF Holds
        <4>2. history = Readable(disk[c]).history
          BY <2>1, <4>1 DEF LoadsAs
        <4>3. QED
          BY <1>1, <3>1, <3>3, <4>2 DEF InMemory
      <3>4. QED
        BY <3>2, <3>3
    <2>2. QED
      BY <1>0, <1>2, <1>3, <2>1, SetForm
  <1>4. ASSUME NEW n \in GameNames, PersistCurrentSave(n), context.valid
        PROVE  Holds(cache'[name.char].history, name, games[name].data)
    <2> DEFINE c == IF context.char = 0 THEN n.char ELSE context.char
               entry == [num |-> SavedNumber(n), name |-> n, data |-> session]
               history == Updated(cache[c].history, entry)
    <2>1. c \in Chars /\ cache' = [cache EXCEPT ![c] = InMemory(history)]
      BY <1>0, <1>4, NamesAre DEF PersistCurrentSave, TypeOK
    <2>2. entry \in Entry /\ entry.name = n
      BY <1>0, NamesAre DEF TypeOK, SavedNumber, Entry
    <2>3. n \notin {NoName, name}
      BY <1>0, <1>1, <1>4, NamesAre DEF PersistCurrentSave
    <2>4. c = name.char => cache[c].loaded
      <3>1. n.char = running /\ context.char \in {0, running}
            /\ (context.char = 0 => name.char # running)
        BY <1>0, <1>4 DEF PersistCurrentSave, ContextWell
      <3>2. QED
        BY <1>0, <3>1 DEF ContextWell
    <2>5. cache[c].history \in Seq(Entry)
      BY <1>0, <2>1, Histories
    <2>6. c = name.char => Holds(history, name, games[name].data)
      <3> HIDE DEF entry, c
      <3>1. QED
        BY <1>1, <2>2, <2>3, <2>4, <2>5, OthersHold
    <2> HIDE DEF c, history
    <2>7. cache'[name.char] = IF name.char = c THEN InMemory(history) ELSE cache[name.char]
      BY <1>0, <1>1, <2>1 DEF TypeOK
    <2>8. CASE name.char = c
      BY <2>6, <2>7, <2>8 DEF InMemory
    <2>9. CASE name.char # c
      BY <1>1, <2>7, <2>9
    <2>10. QED
      BY <2>8, <2>9
  <1>5. CASE Crash
    <2>1. ~cache'[name.char].loaded
      BY <1>1, <1>5 DEF Crash, NotLoaded
    <2>2. QED
      BY <2>1
  <1>6. ASSUME NEW n \in GameNames, PreLoadGame(n)
        PROVE  Holds(cache'[name.char].history, name, games[name].data)
    BY <1>2, <1>3, <1>6, NamesAre DEF PreLoadGame
  <1>7. ASSUME NEW n \in GameNames, PersistCurrentSave(n)
        PROVE  Holds(cache'[name.char].history, name, games[name].data)
    BY <1>2, <1>4, <1>7 DEF PersistCurrentSave
  <1>8. ASSUME NEW c \in Chars, NewGame(c)
        PROVE  Holds(cache'[name.char].history, name, games[name].data)
    BY <1>3, <1>8 DEF NewGame
  <1>9. CASE ~(Crash \/ (\E n \in GameNames : PreLoadGame(n) \/ PersistCurrentSave(n))
               \/ \E c \in Chars : NewGame(c))
    <2>1. cache' = cache
      BY <1>9 DEF Next, RestoreSession, Play, WriteTemporary, Backup, Promote, Fallback, vars
    <2>2. QED
      BY <1>2, <2>1
  <1>10. QED
    BY <1>5, <1>6, <1>7, <1>8, <1>9

LEMMA KeptStep ==
    ASSUME HistoryInv, KeptInv, TornRestore = FALSE, [Next]_vars
    PROVE  KeptInv'
  <1>0. HistoryInv' /\ TypeOK /\ TypeOK' /\ JobWell /\ NothingTorn /\ SnapshotsKept
    BY HistoryStep DEF HistoryInv, KeptInv
  <1>1. NothingTorn'
    <2>1. \A c \in Chars : disk'[c].main # Torn /\ (disk'[c].main = Absent => disk'[c].bak # Torn)
      BY <1>0, ReadableStep
    <2>2. QED
      BY <2>1 DEF NothingTorn
  <1>2. ASSUME NEW name \in GameNames, name \in DOMAIN games', games'[name].ok
        PROVE  name.kind = "Save"
               /\ (~strayed' /\ name \notin Migrated =>
                    /\ Holds(Readable(disk'[name.char]).history, name, games'[name].data)
                    /\ cache'[name.char].loaded =>
                        Holds(cache'[name.char].history, name, games'[name].data))
    <2>1. name.char \in Chars
      BY NamesAre
    <2>2. CASE name \in DOMAIN games /\ games[name].ok /\ games'[name] = games[name]
      <3>1. name \in Written
        BY <2>2 DEF Written
      <3>2. name.kind = "Save"
        BY <1>0, <3>1 DEF SnapshotsKept
      <3>3. ASSUME ~strayed', name \notin Migrated
            PROVE  /\ Holds(Readable(disk'[name.char]).history, name, games'[name].data)
                   /\ cache'[name.char].loaded =>
                        Holds(cache'[name.char].history, name, games'[name].data)
        <4>1. ~strayed
          BY <1>0, <3>3, StaysStrayed
        <4>2. /\ Holds(Readable(disk[name.char]).history, name, games[name].data)
              /\ cache[name.char].loaded => Holds(cache[name.char].history, name, games[name].data)
          BY <1>0, <3>1, <3>3, <4>1 DEF SnapshotsKept
        <4>3. pc = "promote" /\ name.char = job.char => Holds(job.history, name, games[name].data)
          BY <1>0, <4>2 DEF JobWell, Writing, InMemory
        <4>4. Holds(Readable(disk'[name.char]).history, name, games[name].data)
          <5>1. CASE Readable(disk'[name.char]) = Readable(disk[name.char])
            BY <4>2, <5>1
          <5>2. CASE /\ pc = "promote" /\ name.char = job.char
                     /\ Readable(disk'[name.char]) = Current(job.history)
            BY <4>3, <5>2 DEF Current
          <5>3. QED
            BY <1>0, <2>1, <5>1, <5>2, ReadableStep
        <4>5. cache'[name.char].loaded => Holds(cache'[name.char].history, name, games[name].data)
          BY <3>1, <3>3, <4>1, MemoryKept
        <4>6. QED
          BY <2>2, <4>4, <4>5
      <3>4. QED
        BY <3>2, <3>3
    <2>3. CASE /\ Promote /\ pc \in Writing /\ cache' = cache /\ strayed' = strayed
               /\ disk' = [disk EXCEPT ![job.char].main = Current(job.history)]
               /\ name = job.save /\ name.kind = "Save"
               /\ games'[name].data = session
      <3>1. ASSUME ~strayed'
            PROVE  /\ Holds(Readable(disk'[name.char]).history, name, games'[name].data)
                   /\ Holds(cache'[name.char].history, name, games'[name].data)
        <4>1. name # NoName /\ job.char \in Chars
          BY <1>0, <2>3, NamesAre, WritingHas
        <4>2. name.char = job.char /\ Holds(job.history, name, session)
              /\ cache[job.char] = InMemory(job.history)
          BY <1>0, <2>3, <3>1, <4>1 DEF JobWell
        <4>3. disk'[job.char].main = Current(job.history)
          BY <1>0, <2>3, <4>1 DEF TypeOK
        <4>4. Readable(disk'[job.char]) = Current(job.history)
          BY <1>0, <2>3, <4>1, <4>3, ReadableStep
        <4>5. QED
          BY <2>3, <4>2, <4>4 DEF Current, InMemory
      <3>2. QED
        BY <2>3, <3>1
    <2>4. QED
      BY <1>2, <2>2, <2>3, WrittenStep
  <1>3. SnapshotsKept'
    <2>1. DOMAIN games' \subseteq GameNames
      BY <1>0 DEF TypeOK
    <2>2. QED
      BY <1>2, <2>1 DEF SnapshotsKept, Written, Migrated
  <1>4. QED
    BY <1>1, <1>3 DEF KeptInv

LEMMA KeptInit == ASSUME Init PROVE KeptInv
  <1>1. NothingTorn
    BY DEF Init, NothingTorn, Absent, Torn
  <1>2. Written = Migrated /\ \A name \in Migrated : name.kind = "Save"
    BY DEF Init, Written, Migrated, SaveName
  <1>3. QED
    BY <1>1, <1>2 DEF KeptInv, SnapshotsKept
----------------------------------------------------------------------------
LEMMA HistoryAlways == Spec => []HistoryInv
  <1>1. Init => HistoryInv
    BY HistoryInit
  <1>2. HistoryInv /\ [Next]_vars => HistoryInv'
    BY HistoryStep
  <1>3. QED
    BY <1>1, <1>2, PTL DEF Spec

\* What is recorded of one character's game is never kept for, or restored into,
\* the game of another, unless a game was loaded under the context of another
\* character.
THEOREM NothingForeign == Spec => []NoForeignData
  <1>1. Init => NoForeignData
    BY DEF Init, NoForeignData, NotLoaded, Legacy, Absent, Blank, NoContext
  <1>2. HistoryInv /\ NoForeignData /\ [Next]_vars => NoForeignData'
    BY ForeignStep
  <1>3. QED
    BY <1>1, <1>2, HistoryAlways, PTL DEF Spec

\* A numbered save whose snapshot was written is given its data back, from memory
\* and from the disk, whatever fails or crashes later; but for a crash that tears
\* the copy of the backup over the file (UpdateSaveEntry, LoadCharacterData).
THEOREM SavesAreRestored ==
    ASSUME TornRestore = FALSE
    PROVE  Spec => []LoadRestoresSave
  <1>1. Init => KeptInv
    BY KeptInit
  <1>2. HistoryInv /\ KeptInv /\ [Next]_vars => KeptInv'
    BY KeptStep
  <1>3. KeptInv => LoadRestoresSave
    BY RestoredOwn DEF KeptInv, SnapshotsKept, LoadRestoresSave, Restores
  <1>4. QED
    BY <1>1, <1>2, <1>3, HistoryAlways, PTL DEF Spec
=============================================================================
