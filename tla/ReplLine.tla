------------------------------ MODULE ReplLine ------------------------------
(* The REPL's line: the history store with its recall, the search with /,  *)
(* the Tab cycle of the command line, and the file the history is kept in  *)
(* between sessions.  A line is known by its name; Lines(l) is what it     *)
(* becomes when it is written to a file and read again, without the lines  *)
(* that are empty.                                                         *)
EXTENDS Integers, Sequences, SequencesExt

CONSTANTS Inputs,     \* the lines that are typed
          Blank,      \* the empty line
          Lines(_),   \* the lines of an entry that are not empty
          Patterns,   \* search patterns: the sets of the entries they match
          COMMANDS,   \* the completable commands, sorted
          Begins(_, _),  \* a command starts with a buffer
          Buffers,    \* the buffers typed on the command line
          MaxHistory  \* max_size of the store

VARIABLES
  store,   \* history::Store: [entries, cursor, draft]; cursor 0 for None
  input,   \* ReplState::input
  search,  \* SearchState
  cmd,     \* the command line: [open, buf, cycle]
  stashed  \* ghost: the line that was there when the browsing began

vars == <<store, input, search, cmd, stashed>>

NoSearch == [active |-> FALSE, matches |-> <<>>, index |-> 0, original |-> Blank]
NoCycle == [prefix |-> "none", matches |-> <<>>, showing |-> 0]
Closed == [open |-> FALSE, buf |-> "", cycle |-> NoCycle]
NewStore == [entries |-> <<>>, cursor |-> 0, draft |-> Blank]

Init == /\ store = NewStore /\ input = Blank /\ search = NoSearch /\ cmd = Closed
        /\ stashed = Blank

(***************************************************************************)
(* The store.                                                              *)
(***************************************************************************)
\* A variant that evicts the newest entry.
Capped_newest(es) == IF Len(es) > MaxHistory THEN Front(es) ELSE es

Capped(es) == IF Len(es) > MaxHistory THEN Tail(es) ELSE es

\* A variant that keeps consecutive duplicates.
push_raw_all(es, e) == IF e = Blank THEN es ELSE Capped(Append(es, e))

push_raw(es, e) ==
  IF e = Blank \/ (es # <<>> /\ Last(es) = e) THEN es ELSE Capped(Append(es, e))

push(st, e) == [entries |-> push_raw(st.entries, e), cursor |-> 0, draft |-> Blank]

cancel_recall(st) == [st EXCEPT !.cursor = 0, !.draft = Blank]

\* The members of s at the indices in I, in their order.
Picks(s, I) ==
  LET pick[n \in 0..Len(s)] == IF n = 0 THEN <<>>
                               ELSE IF n \in I THEN Append(pick[n - 1], s[n]) ELSE pick[n - 1]
  IN  pick
Picked(s, I) == Picks(s, I)[Len(s)]

NewestFirst(es) == [i \in 1..Len(es) |-> Len(es) + 1 - i]

\* search: the indices of the matching entries, the newest first
Hits(es, p) == Picked(NewestFirst(es), {i \in 1..Len(es) : es[NewestFirst(es)[i]] \in p})

Editing == ~search.active /\ ~cmd.open

Commands == Buffers \cup Range(COMMANDS)

\* A line that is not a command is run: it is recorded, accepted or not, and
\* the input is cleared.  A definition that cannot be written changes nothing.
Submit ==
  /\ Editing /\ input \notin Commands \cup {Blank}
  /\ store' = cancel_recall(push(store, input)) /\ input' = Blank
  /\ UNCHANGED <<search, cmd, stashed>>

\* The names a command is recorded under: its own, or that of the command it
\* is short for.
Names(c) == {c} \cup {d \in Range(COMMANDS) : Begins(d, c)}

\* clear forgets the store, unless the session file cannot be written.  Another
\* command is recorded or, when it fails, is not; an include of what is there
\* already is recorded and leaves the line as it is.
handle_command(c) ==
  IF c = "clear"
  THEN /\ store' \in {cancel_recall(push(st, c)) : st \in {store, NewStore}}
       /\ input' = Blank
  ELSE \/ store' = push(store, c) /\ UNCHANGED input
       \/ /\ store' \in {cancel_recall(st) : st \in {store} \cup {push(store, d) : d \in Names(c)}}
          /\ input' = Blank

\* A command that was typed into the line, or recalled.
SubmitCommand ==
  /\ Editing /\ input \in Commands \ {Blank}
  /\ handle_command(input)
  /\ UNCHANGED <<search, cmd, stashed>>

Type == \E l \in Inputs :
  /\ Editing /\ input' = l
  /\ UNCHANGED <<store, search, cmd, stashed>>

\* A variant that stashes the line on every step.
history_up_restash ==
  LET at == IF store.cursor = 0 THEN Len(store.entries) ELSE store.cursor - 1
  IN  /\ Editing /\ store.entries # <<>> /\ at > 0
      /\ store' = [store EXCEPT !.cursor = at, !.draft = input]
      /\ input' = store.entries[at]
      /\ stashed' = IF store.cursor = 0 THEN input ELSE stashed
      /\ UNCHANGED <<search, cmd>>

history_up ==
  LET at == IF store.cursor = 0 THEN Len(store.entries) ELSE store.cursor - 1
  IN  /\ Editing /\ store.entries # <<>> /\ at > 0
      /\ store' = [store EXCEPT !.cursor = at,
                                !.draft = IF store.cursor = 0 THEN input ELSE @]
      /\ input' = store.entries[at]
      /\ stashed' = IF store.cursor = 0 THEN input ELSE stashed
      /\ UNCHANGED <<search, cmd>>

history_down ==
  /\ Editing /\ store.cursor # 0
  /\ IF store.cursor < Len(store.entries)
     THEN /\ store' = [store EXCEPT !.cursor = @ + 1]
          /\ input' = store.entries[store.cursor + 1]
     ELSE store' = [store EXCEPT !.cursor = 0] /\ input' = store.draft
  /\ UNCHANGED <<search, cmd, stashed>>

(***************************************************************************)
(* The search with /.                                                      *)
(***************************************************************************)
try_enter_search ==
  /\ Editing
  /\ search' = [NoSearch EXCEPT !.active = TRUE, !.original = input]
  /\ UNCHANGED <<store, input, cmd, stashed>>

\* preview_current_match
Preview(ms, i) == IF ms = <<>> THEN search.original ELSE store.entries[ms[i]]

\* A character is added to the pattern or taken from it (refresh_search).  A
\* pattern without characters matches nothing.
SearchType == \E p \in Patterns :
  /\ search.active
  /\ search' = [search EXCEPT !.matches = Hits(store.entries, p), !.index = 1]
  /\ input' = Preview(Hits(store.entries, p), 1)
  /\ UNCHANGED <<store, cmd, stashed>>

\* A variant that runs past the last match.
NextMatchOpen(i, n, backward) == IF backward THEN i - 1 ELSE i + 1

NextMatch(i, n, backward) ==
  IF backward THEN IF i = 1 THEN n ELSE i - 1 ELSE (i % n) + 1

step_search_match == \E backward \in BOOLEAN :
  LET i == NextMatch(search.index, Len(search.matches), backward)
  IN  /\ search.active /\ search.matches # <<>>
      /\ search' = [search EXCEPT !.index = i]
      /\ input' = IF i \in DOMAIN search.matches THEN Preview(search.matches, i) ELSE input
      /\ UNCHANGED <<store, cmd, stashed>>

\* A variant of Escape that leaves the preview in the line.
SearchCancelKeeps ==
  /\ search.active /\ search' = [search EXCEPT !.active = FALSE]
  /\ UNCHANGED <<store, input, cmd, stashed>>

SearchCancel ==
  /\ search.active
  /\ input' = search.original
  /\ search' = [search EXCEPT !.active = FALSE, !.matches = <<>>]
  /\ UNCHANGED <<store, cmd, stashed>>

SearchAccept ==
  /\ search.active
  /\ search' = [search EXCEPT !.active = FALSE, !.matches = <<>>]
  /\ UNCHANGED <<store, input, cmd, stashed>>

(***************************************************************************)
(* The command line and its Tab cycle.                                     *)
(***************************************************************************)
OpenCommand == /\ Editing /\ cmd' = [Closed EXCEPT !.open = TRUE]
               /\ UNCHANGED <<store, input, search, stashed>>

\* A variant that keeps the cycle of the buffer before.
CommandTypeStale == \E b \in Buffers :
  /\ cmd.open /\ cmd' = [cmd EXCEPT !.buf = b]
  /\ UNCHANGED <<store, input, search, stashed>>

\* Any key but Tab forgets the cycle.
CommandType == \E b \in Buffers :
  /\ cmd.open /\ cmd' = [open |-> TRUE, buf |-> b, cycle |-> NoCycle]
  /\ UNCHANGED <<store, input, search, stashed>>

Candidates(b) ==
  Picked(COMMANDS, {i \in DOMAIN COMMANDS : Begins(COMMANDS[i], b) /\ COMMANDS[i] # b})

\* The slots are the matches and, as slot 0, what was typed.
Turn(i, n, reverse) == IF reverse THEN IF i = 0 THEN n ELSE i - 1
                       ELSE IF i >= n THEN 0 ELSE i + 1

cycle_command_completion == \E reverse \in BOOLEAN :
  LET c == IF cmd.cycle = NoCycle
           THEN [prefix |-> cmd.buf, matches |-> Candidates(cmd.buf), showing |-> 0]
           ELSE cmd.cycle
      i == Turn(c.showing, Len(c.matches), reverse)
  IN  /\ cmd.open
      /\ cmd' = IF c.matches = <<>> THEN [cmd EXCEPT !.cycle = c]
                ELSE [open |-> TRUE, cycle |-> [c EXCEPT !.showing = i],
                      buf |-> IF i = 0 THEN c.prefix ELSE c.matches[i]]
      /\ UNCHANGED <<store, input, search, stashed>>

\* Enter runs the command, whatever the line holds.
CommandEnter ==
  /\ cmd.open /\ cmd' = Closed
  /\ handle_command(cmd.buf)
  /\ UNCHANGED <<search, stashed>>

CommandEscape == /\ cmd.open /\ cmd' = Closed
                 /\ UNCHANGED <<store, input, search, stashed>>

(***************************************************************************)
(* The end of a session and the next one.                                  *)
(***************************************************************************)
Beyond(f) == IF Len(f) > MaxHistory THEN Len(f) - MaxHistory ELSE 0

\* The file is read line by line, and the last MaxHistory lines are pushed.
Loads(f, start) ==
  LET load[n \in 0..Len(f)] == IF n <= start THEN NewStore ELSE push(load[n - 1], f[n])
  IN  load

\* A variant that starts one line too late.
LoadedLate(f) == Loads(f, Beyond(f) + 1)[Len(f)]

Loaded(f) == Loads(f, Beyond(f))[Len(f)]

Saves(es) == LET saved[n \in 0..Len(es)] == IF n = 0 THEN <<>> ELSE saved[n - 1] \o Lines(es[n])
             IN  saved
save_history == Saves(store.entries)[Len(store.entries)]

\* Quit: the entries are written, and the next session reads them back.
Quit == /\ Editing
        /\ store' = Loaded(save_history)
        /\ input' = Blank /\ search' = NoSearch
        /\ UNCHANGED <<cmd, stashed>>

Next == \/ Submit \/ SubmitCommand \/ Type \/ history_up \/ history_down
        \/ try_enter_search \/ SearchType \/ step_search_match
        \/ SearchCancel \/ SearchAccept
        \/ OpenCommand \/ CommandType \/ cycle_command_completion
        \/ CommandEnter \/ CommandEscape \/ Quit

Spec == Init /\ [][Next]_vars
-----------------------------------------------------------------------------
\* The store's cursor is on an entry, consecutive entries differ, and the
\* store is no longer than its maximum.
StoreOK == /\ store.cursor \in 0..Len(store.entries)
           /\ Len(store.entries) <= MaxHistory
           /\ \A i \in 2..Len(store.entries) : store.entries[i] # store.entries[i - 1]

\* Stepping past the newest entry brings back the line the browsing began
\* with, whatever was recalled, edited or searched for in between.
DraftComesBack ==
  store.cursor # 0 /\ history_down /\ store'.cursor = 0 => input' = stashed

\* During a search the line shows the current match, or the line before the
\* search when there is none.
SearchShowsMatch ==
  search.active =>
    IF search.matches = <<>> THEN input = search.original
    ELSE /\ search.index \in DOMAIN search.matches
         /\ input = store.entries[search.matches[search.index]]

\* A search that is cancelled leaves no trace: the line is the one the search
\* began with and the store is as it was.
CancelRestores ==
  search.active /\ ~search'.active /\ ~SearchAccept =>
    input' = search.original /\ store' = store

\* A Tab cycle is always about what is in the buffer.
CycleFresh ==
  cmd.cycle # NoCycle =>
    /\ cmd.open
    /\ cmd.buf = IF cmd.cycle.showing = 0 THEN cmd.cycle.prefix
                 ELSE cmd.cycle.matches[cmd.cycle.showing]

\* A line that is run and is not a command is the newest entry, in a store at
\* its maximum too.
NewestKept ==
  Submit => store'.entries # <<>> /\ Last(store'.entries) = input

\* A session that ends and starts again has its history, as long as every
\* entry is one line.
HistorySurvives ==
  Quit /\ (\A i \in DOMAIN store.entries : Lines(store.entries[i]) = <<store.entries[i]>>)
    => store'.entries = store.entries

\* What every key keeps of the history, the search and the command line.
LineSafe == /\ StoreOK' /\ SearchShowsMatch' /\ CycleFresh'
            /\ DraftComesBack /\ CancelRestores /\ NewestKept /\ HistorySurvives

\* As the comment on save_history has it, what is saved is the deduplicated
\* and bounded store: reading it back gives the store.
SavedIsStore == [][Quit => store'.entries = store.entries]_vars
=============================================================================
