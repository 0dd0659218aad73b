------------------------------ MODULE FileInbox ------------------------------
(***************************************************************************)
(* The agent that files the notes of the shared inbox                      *)
(* (agents/common/file_inbox.py, scripts/nextcloud_para_agent.py) and the  *)
(* migration of the legacy folder.                                         *)
(*                                                                         *)
(* A run lists the inbox, then for one note after the other reads it, has  *)
(* a language model choose a folder and perhaps a new text, takes a name   *)
(* that is free, moves the file and writes the new text. The hourly script *)
(* and the home portal start runs of their own, people write meanwhile,    *)
(* and nothing locks a file. The portal deletes the empty notes it made    *)
(* before it makes another.                                                *)
(*                                                                         *)
(* Abstractions: every note wants the same name, so that a name is the     *)
(* number that makes it free; the folders a note is filed in are one; what *)
(* a note says is the number of edits it holds, or when a model put it in  *)
(* words of its own, of which edit; locks and idle times are a choice of   *)
(* what a run leaves alone. The index requests that a run makes and        *)
(* reports, and the questions about notes in Unfiled, change nothing here: *)
(* FileJobs models the service they go to.                                 *)
(***************************************************************************)
EXTENDS Integers, FiniteSets, FiniteSetsExt

CONSTANTS
  Files,
  Rewritable, \* notes of the home dashboard: filed untagged, and rewritten
  Legacy,     \* notes that may be in the legacy folder at first
  Runs,       \* runs that may be in progress at once
  Portal,     \* those of the home portal; the others are the script's
  Slots,      \* bound: names of a folder
  MaxListed,  \* bound: notes that a run of the inbox takes
  MaxEdits,   \* bound: edits of each note
  NULL

FileInboxAssumption ==
  /\ Rewritable \cup Legacy \subseteq Files /\ Portal \subseteq Runs
  /\ Slots \in Nat \ {0} /\ MaxEdits \in [Files -> Nat] /\ MaxListed \in Nat
  /\ IsFiniteSet(Legacy) /\ Cardinality(Legacy) <= Slots
  /\ NULL \notin Int \cup [file : Files, says : Int]

Folders == {"Inbox", "Filed", "Unfiled", "Legacy"}
Places   == Folders \X (1..Slots)
There(p) == <<"Filed", p[2]>>

VARIABLES
  fs,       \* path -> NULL or the note there: which it is and what it says
  edits,    \* note -> edits people have made
  tagged,   \* notes that carry the tag "ready"
  run,      \* per run NULL or what it is doing
  disturbed \* notes that two runs had listed at once, that were edited between a run's
            \* read and its write, that took the place of another, that were rewritten
            \* unread or that were deleted with the legacy folder (history)

vars == <<fs, edits, tagged, run, disturbed>>

Taken(folder) == {p \in Places : p[1] = folder /\ fs[p] # NULL}
Free(folder)  == {p \in Places : p[1] = folder /\ fs[p] = NULL}

\* _unique_destination: the first name of the folder that is free.
Unique(folder) == CHOOSE p \in Free(folder) : \A q \in Free(folder) : p[2] <= q[2]

Empty(p) == fs[p].says = 0

\* What a model makes, in words of its own, of a text that says so much: it is given the
\* first 12000 characters, and need not keep them.
Reworded(says) == IF says < 0 THEN says ELSE -1 - says

\* What a model makes of a note it was given no text of.
Blank == Reworded(0)

\* nc_webdav_list_ready_files: the notes of the inbox that carry the tag.
Ready == {p \in Taken("Inbox") : fs[p].file \in tagged}

\* move_resource, which replaces nothing; of a source that is gone nothing is left to move.
Moved(from, to) == [fs EXCEPT ![to] = fs[from], ![from] = NULL]

Missing(f) == \A p \in Places : fs[p] = NULL \/ fs[p].file # f

\* The notes that a run has listed and not dealt with.
Held(r) ==
  IF run[r] = NULL THEN {} ELSE {c.file : c \in run[r].todo \cup run[r].item}
HeldNow == UNION {Held(r) : r \in Runs}

\* The notes that are disturbed when r, which means c, moves what is at c's place: that
\* note and c if it is another, and the note if another run has listed it.
Crossed(r, c) ==
  LET f == fs[c.path].file
  IN  IF f # c.file THEN {f, c.file}
      ELSE {f} \cap UNION {Held(s) : s \in Runs \ {r}}

\* _list_directory_entries_with_locks: what a listing tells of the notes at ps.
Listed(ps) == {[path |-> p, file |-> fs[p].file] : p \in ps}

---------------------------------------------------------------------------
(* People                                                                  *)

\* A file is uploaded.
AddNote ==
  \E f \in Files \ Rewritable :
    /\ edits[f] = NULL /\ Free("Inbox") # {}
    /\ fs' = [fs EXCEPT ![Unique("Inbox")] = [file |-> f, says |-> 1]]
    /\ edits' = [edits EXCEPT ![f] = 1]
    /\ UNCHANGED <<tagged, run, disturbed>>

EditNote ==
  \E p \in Places :
    /\ fs[p] # NULL /\ edits[fs[p].file] \in 0 .. MaxEdits[fs[p].file] - 1
    /\ LET f == fs[p].file
       IN  /\ edits' = [edits EXCEPT ![f] = @ + 1]
           /\ fs' = [fs EXCEPT ![p].says = edits[f] + 1]
           /\ disturbed' = IF \E r \in Runs : run[r] # NULL /\ run[r].pc \in {"cleanup", "move", "write"}
                                             /\ f \in Held(r)
                           THEN disturbed \cup {f} ELSE disturbed
    /\ UNCHANGED <<tagged, run>>

TagNote ==
  \E f \in Files \ (tagged \cup Rewritable) :
    /\ edits[f] # NULL
    /\ tagged' = tagged \cup {f}
    /\ UNCHANGED <<fs, edits, run, disturbed>>

---------------------------------------------------------------------------
(* A run, and a new note of the home portal                                *)

\* Run r has listed the notes todo, those of others among them.
Begins(r, pc, todo) ==
  /\ run' = [run EXCEPT ![r] = [pc |-> pc, todo |-> todo, item |-> {}, text |-> NULL,
                                dest |-> NULL]]
  /\ disturbed' = disturbed \cup ({c.file : c \in todo} \cap HeldNow)

\* createTextDocument of the portal lists the notes it made that are still empty,
CreateDocument(r) ==
  /\ run[r] = NULL /\ r \in Portal
  /\ Begins(r, "cleanup", Listed({p \in Taken("Inbox") : fs[p].file \in Rewritable /\ Empty(p)}))
  /\ UNCHANGED <<fs, edits, tagged>>

\* deletes them one by one, whatever they say by now,
RemoveOne(r) ==
  /\ run[r] # NULL /\ run[r].pc = "cleanup"
  /\ \E c \in run[r].todo :
       /\ fs' = [fs EXCEPT ![c.path] = NULL]
       /\ IF fs[c.path] = NULL THEN UNCHANGED <<edits, disturbed>>
          ELSE /\ disturbed' = disturbed \cup Crossed(r, c)
               /\ edits' = IF Empty(c.path) THEN [edits EXCEPT ![fs[c.path].file] = NULL] ELSE edits
       /\ run' = [run EXCEPT ![r].todo = @ \ {c}]
  /\ UNCHANGED tagged

\* and makes a new one.
CreateEmpty(r) ==
  /\ run[r] # NULL /\ run[r].pc = "cleanup" /\ run[r].todo = {}
  /\ \E f \in Rewritable :
       /\ edits[f] = NULL /\ Free("Inbox") # {}
       /\ fs' = [fs EXCEPT ![Unique("Inbox")] = [file |-> f, says |-> 0]]
       /\ edits' = [edits EXCEPT ![f] = 0]
  /\ run' = [run EXCEPT ![r] = NULL]
  /\ UNCHANGED <<tagged, disturbed>>

\* The notes of the inbox that discover_candidates takes for run r, but for the locked
\* and the recent ones.
Candidates(r) ==
  {p \in Taken("Inbox") : ~Empty(p) /\ (r \in Portal \/ p \in Ready \/ fs[p].file \in Rewritable)}

ProcessInbox(r) ==
  /\ run[r] = NULL
  /\ \E ps \in SUBSET Candidates(r) : Cardinality(ps) \in 1..MaxListed /\ Begins(r, "next", Listed(ps))
  /\ UNCHANGED <<fs, edits, tagged>>

\* replay_unfiled_to_inbox: the notes in Unfiled go back to the inbox one by one,
ReplayUnfiled(r) ==
  /\ run[r] = NULL /\ r \notin Portal /\ Taken("Unfiled") # {}
  /\ Begins(r, "replay", Listed(Taken("Unfiled")))
  /\ UNCHANGED <<fs, edits, tagged>>

\* and are then what the run files. A source that is gone is taken for moved, or ends it.
ReplayOne(r) ==
  /\ run[r] # NULL /\ run[r].pc = "replay" /\ Free("Inbox") # {}
  /\ \E c \in {d \in run[r].todo : d.path[1] = "Unfiled"} :
       LET there == [path |-> Unique("Inbox"), file |-> c.file]
       IN  \/ /\ fs' = Moved(c.path, there.path)
              /\ run' = [run EXCEPT ![r].todo = (@ \ {c}) \cup {there}]
              /\ disturbed' = IF fs[c.path] = NULL THEN disturbed
                              ELSE disturbed \cup Crossed(r, c)
           \/ /\ fs[c.path] = NULL
              /\ run' = [run EXCEPT ![r] = NULL]
              /\ UNCHANGED <<fs, disturbed>>
  /\ UNCHANGED <<edits, tagged>>

Replayed(r) ==
  /\ run[r] # NULL /\ run[r].pc = "replay"
  /\ \A c \in run[r].todo : c.path[1] = "Inbox"
  /\ run' = [run EXCEPT ![r].pc = "next"]
  /\ UNCHANGED <<fs, edits, tagged, disturbed>>

\* _extract_readable_text: the text of what is there, or none, when nothing is there or
\* both tools fail to read it.
ReadText(p) == {NULL} \cup IF fs[p] = NULL THEN {} ELSE {fs[p].says}

\* _parse_file_agent_result: whatever the model answers makes a decision, one that is not
\* sure files the note in Unfiled; a dashboard note (_rewrite_eligible) always gets a new
\* text, the model's own rewritten_markdown or, when that is empty, one that holds what
\* was read (_build_structured_note_markdown), if anything was.
Answers(f, says) ==
  [folder : {"Filed", "Unfiled"},
   text : IF f \notin Rewritable THEN {NULL}
          ELSE IF says \in {NULL, 0} THEN {Blank} ELSE {says, Reworded(says)}]

\* synthesize_note_with_file_agent: when the model fails, the note is filed in Unfiled.
Decisions(f, says) == Answers(f, says) \cup {[folder |-> "Unfiled", text |-> NULL]}

\* The next note is read, decided on and given a name.
Decide(r) ==
  /\ run[r] # NULL /\ run[r].pc = "next"
  /\ \E c \in run[r].todo : \E says \in ReadText(c.path) : \E d \in Decisions(c.file, says) :
       /\ Free(d.folder) # {}
       /\ run' = [run EXCEPT ![r] = [pc |-> "move", todo |-> @.todo \ {c}, item |-> {c},
                                     text |-> d.text, dest |-> Unique(d.folder)]]
  /\ UNCHANGED <<fs, edits, tagged, disturbed>>

Rest(r) == [run[r] EXCEPT !.pc = "next", !.item = {}, !.text = NULL, !.dest = NULL]

\* Mutant: the move replaces what has taken the name meanwhile.
MoveOver(r) ==
  LET q == run[r]
  IN  /\ q # NULL /\ q.pc = "move"
      /\ \E c \in q.item :
           /\ fs' = Moved(c.path, q.dest)
           /\ disturbed' = disturbed
           /\ run' = [run EXCEPT ![r].pc = "write"]
      /\ UNCHANGED <<edits, tagged>>

\* move_resource, whatever is at the source by now. A name that was taken meanwhile is a
\* conflict, and the note waits for another run; a source that is gone is taken for
\* moved, or the tool fails and the run with it.
Move(r) ==
  LET q == run[r]
  IN  /\ q # NULL /\ q.pc = "move"
      /\ \E c \in q.item :
           LET is == fs[c.path]
           IN  IF is = NULL
               THEN /\ run' \in {[run EXCEPT ![r] = NULL], [run EXCEPT ![r].pc = "write"]}
                    /\ UNCHANGED <<fs, disturbed>>
               ELSE IF fs[q.dest] # NULL
               THEN run' = [run EXCEPT ![r] = Rest(r)] /\ UNCHANGED <<fs, disturbed>>
               ELSE /\ fs' = Moved(c.path, q.dest)
                    /\ disturbed' = disturbed \cup Crossed(r, c)
                    /\ run' = [run EXCEPT ![r].pc = "write"]
      /\ UNCHANGED <<edits, tagged>>

\* write_file of a new text, whatever is at the destination by now; the tag goes.
Write(r) ==
  LET q == run[r]
  IN  /\ q # NULL /\ q.pc = "write"
      /\ \E c \in q.item :
           /\ fs' = IF q.text # NULL
                    THEN [fs EXCEPT ![q.dest] = [file |-> IF fs[q.dest] = NULL THEN c.file
                                                          ELSE fs[q.dest].file,
                                                 says |-> q.text]]
                    ELSE fs
           /\ disturbed' = IF q.text = NULL THEN disturbed
                           ELSE disturbed \cup (IF fs[q.dest] = NULL THEN {} ELSE {fs[q.dest].file} \ {c.file})
                                          \cup (IF q.text = Blank THEN {c.file} ELSE {})
           /\ tagged' = tagged \ {c.file}
      /\ run' = [run EXCEPT ![r] = Rest(r)]
      /\ UNCHANGED <<edits>>

\* The run has no more notes, or its process dies, or a tool fails.
End(r) ==
  /\ run[r] # NULL
  /\ run' = [run EXCEPT ![r] = NULL]
  /\ UNCHANGED <<fs, edits, tagged, disturbed>>

---------------------------------------------------------------------------
(* The migration                                                           *)

\* _collect_migration_moves: notes whose name is free in their new folder. The others
\* are conflicts, and only reported.
MigrateFamilycloud(r) ==
  /\ run[r] = NULL /\ r \notin Portal
  /\ Begins(r, "migrate", Listed({p \in Taken("Legacy") : fs[There(p)] = NULL}))
  /\ UNCHANGED <<fs, edits, tagged>>

\* A move whose name was taken meanwhile, or whose source is gone, ends the migration.
MigrateOne(r) ==
  /\ run[r] # NULL /\ run[r].pc = "migrate"
  /\ \E c \in run[r].todo :
       IF fs[There(c.path)] = NULL /\ fs[c.path] # NULL
       THEN /\ fs' = Moved(c.path, There(c.path))
            /\ run' = [run EXCEPT ![r].todo = @ \ {c}]
       ELSE run' = [run EXCEPT ![r] = NULL] /\ UNCHANGED fs
  /\ UNCHANGED <<edits, tagged, disturbed>>

\* delete_directory: a DELETE of a folder, in WebDAV with all that is in it.
DeleteLegacy(r) ==
  /\ run[r] # NULL /\ run[r].pc = "migrate" /\ run[r].todo = {}
  /\ fs' = [p \in Places |-> IF p[1] = "Legacy" THEN NULL ELSE fs[p]]
  /\ disturbed' = disturbed \cup {fs[p].file : p \in Taken("Legacy")}
  /\ run' = [run EXCEPT ![r] = NULL]
  /\ UNCHANGED <<edits, tagged>>

---------------------------------------------------------------------------
Init ==
  /\ \E there \in SUBSET Legacy : \E at \in [there -> 1..Cardinality(there)] :
       /\ \A f, g \in there : f # g => at[f] # at[g]
       /\ fs = [p \in Places |->
            IF p[1] = "Legacy" /\ \E f \in there : at[f] = p[2]
            THEN [file |-> CHOOSE f \in there : at[f] = p[2], says |-> 1] ELSE NULL]
       /\ edits = [f \in Files |-> IF f \in there THEN 1 ELSE NULL]
  /\ tagged = {} /\ disturbed = {}
  /\ run = [r \in Runs |-> NULL]

Next ==
  \/ AddNote \/ EditNote \/ TagNote
  \/ \E r \in Runs :
       \/ CreateDocument(r) \/ RemoveOne(r) \/ CreateEmpty(r)
       \/ ProcessInbox(r) \/ ReplayUnfiled(r) \/ ReplayOne(r) \/ Replayed(r)
       \/ Decide(r) \/ Move(r) \/ Write(r) \/ End(r)
       \/ MigrateFamilycloud(r) \/ MigrateOne(r) \/ DeleteLegacy(r)

Spec == Init /\ [][Next]_vars

---------------------------------------------------------------------------
(* Properties                                                              *)

\* What people last wrote to f or, of a dashboard note, what a model made of that.
Current(f) == {edits[f]} \cup (IF f \in Rewritable THEN {Reworded(edits[f])} ELSE {})

\* The note f is in one place, and what it says is current.
Kept(f) ==
  /\ \E p \in Places : fs[p] # NULL /\ fs[p].file = f /\ fs[p].says \in Current(f)
  /\ \A p, q \in Places : fs[p] # NULL /\ fs[q] # NULL /\ fs[p].file = f /\ fs[q].file = f => p = q

\* The type invariant.
TypeOK ==
  /\ \A p \in Places : fs[p] # NULL => fs[p].file \in Files /\ fs[p].says \in Int
  /\ tagged \subseteq Files /\ disturbed \subseteq Files

\* A note that was written to the inbox is in one place and says what people last wrote
\* or, of a dashboard note, what a model made of just that, through runs that overlap,
\* take the same names, replay, migrate and die, unless two runs had listed it at once,
\* it was edited under a run's hands (_process_candidates_async), it was rewritten
\* although it could not be read or the legacy folder was deleted over it.
NotesKept ==
  \A f \in Files \ disturbed : edits[f] # NULL => Kept(f)

\* The migration loses no note: it skips those that are in conflict (the tests of
\* nextcloud_para_agent).
MigrationKeeps ==
  [][(\E r \in Runs : DeleteLegacy(r)) => \A f \in Files : Missing(f)' => Missing(f)]_vars
=============================================================================
