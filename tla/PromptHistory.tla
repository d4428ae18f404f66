---------------------------- MODULE PromptHistory -----------------------------
(***************************************************************************)
(* The input line, the completion of slash commands and the input history  *)
(* of a session: what Up and Down bring back, and the table that keeps it  *)
(* over restarts.                                                          *)
(*                                                                         *)
(* A line is a prompt, a command or the beginning of one; words after a    *)
(* command are left out, since Enter drops them.  Moving the highlight in  *)
(* the list of completions changes nothing else, so any of them may be     *)
(* taken.                                                                  *)
(***************************************************************************)
EXTENDS Naturals, Sequences

CONSTANTS
    Sessions,
    Prompts,            \* prompts, and commands that complete to nothing
    Commands,
    Unfinished,         \* beginnings of commands
    Empty,              \* the empty line
    Limit               \* DefaultInputHistoryLimit, which is 100

ASSUME LimitAssumption == Limit \in Nat \ {0}
ASSUME LinesAssumption ==
    /\ Empty \notin Prompts \cup Commands \cup Unfinished
    /\ Commands # {}

Entries == Prompts \cup Commands
Lines   == Entries \cup Unfinished \cup {Empty}

VARIABLES
    line,               \* what the input line shows
    inputHistory,       \* of the running program
    index, draft, browsing,     \* inputHistoryIndex, inputDraft, historyBrowsing
    table,              \* session_input_history, by session
    typed,              \* history: the line, as it was before the user began to
                        \* browse
    said, unsaved       \* history: the newest entries of each session, and the
                        \* sessions of which one was not saved

navigation == <<index, draft, browsing>>
lineVars   == <<line, inputHistory, navigation, table, typed, said, unsaved>>

(* The newest Limit elements of s.                                         *)
Newest(s) == IF Len(s) <= Limit THEN s
             ELSE SubSeq(s, Len(s) - Limit + 1, Len(s))

HistoryTypeOK ==
    /\ line \in Lines /\ draft \in Lines /\ typed \in Lines
    /\ inputHistory \in Seq(Entries) /\ Len(inputHistory) <= Limit
    /\ index \in Nat /\ browsing \in BOOLEAN
    /\ table \in [Sessions -> Seq(Entries)]
    /\ said \in [Sessions -> Seq(Entries)]
    /\ unsaved \subseteq Sessions

(* filterSlashCommands.                                                    *)
Suggestions(l) == IF l \in Commands THEN {l}
                  ELSE IF l \in Unfinished THEN Commands
                  ELSE {}

-----------------------------------------------------------------------------
(* resetInputHistoryNavigation.                                            *)
ResetNavigation ==
    /\ index' = Len(inputHistory')
    /\ draft' = Empty
    /\ browsing' = FALSE

(* Faulty variant: the table is trusted to hold no more than the limit.    *)
LoadWhole(s) ==
    /\ inputHistory' = table[s]
    /\ line' = Empty /\ typed' = Empty
    /\ ResetNavigation
    /\ UNCHANGED <<table, said, unsaved>>

(* loadPersistedInputHistory, at the start of the program.                 *)
LoadHistory(s) ==
    /\ inputHistory' = Newest(table[s])
    /\ line' = Empty /\ typed' = Empty
    /\ ResetNavigation
    /\ UNCHANGED <<table, said, unsaved>>

HistoryInit ==
    /\ line = Empty /\ typed = Empty /\ inputHistory = <<>>
    /\ index = 0 /\ draft = Empty /\ browsing = FALSE
    /\ table = [s \in Sessions |-> <<>>]
    /\ said = [s \in Sessions |-> <<>>]
    /\ unsaved = {}

(* A character is typed, or backspace or delete removes one               *)
(* (shouldResetHistoryNavigation).                                         *)
Type(l) ==
    /\ l # line
    /\ line' = l /\ typed' = l
    /\ UNCHANGED <<inputHistory, table, said, unsaved>>
    /\ ResetNavigation

(* Any other key that edits the line (space, Ctrl+C, Ctrl+V, Ctrl+W): the  *)
(* history is browsed further.                                             *)
Edit(l) ==
    /\ l # line
    /\ line' = l /\ typed' = IF browsing THEN typed ELSE l
    /\ UNCHANGED <<inputHistory, navigation, table, said, unsaved>>

(* Tab (ApplyTopSlashSuggestion).                                          *)
Complete(c) ==
    /\ c \in Suggestions(line)
    /\ line' = c /\ typed' = IF browsing THEN typed ELSE c
    /\ UNCHANGED <<inputHistory, navigation, table, said, unsaved>>

(* Up and Down are taken by the completions while there are some.          *)
Browses == Suggestions(line) = {} /\ inputHistory # <<>>

(* The two variables that the first key of a walk sets.                    *)
Start == IF browsing THEN index ELSE Len(inputHistory)
Kept  == IF browsing THEN draft ELSE line

(* Faulty variant: each key takes the line for the draft.                  *)
UpForgets ==
    /\ Browses
    /\ index' = IF Start > 0 THEN Start - 1 ELSE Start
    /\ line' = inputHistory[index' + 1]
    /\ draft' = line /\ browsing' = TRUE
    /\ UNCHANGED <<inputHistory, table, typed, said, unsaved>>

Up ==
    /\ Browses
    /\ index' = IF Start > 0 THEN Start - 1 ELSE Start
    /\ line' = inputHistory[index' + 1]
    /\ draft' = Kept /\ browsing' = TRUE
    /\ UNCHANGED <<inputHistory, table, typed, said, unsaved>>

Down ==
    /\ Browses
    /\ draft' = Kept
    /\ IF Start + 1 < Len(inputHistory)
       THEN /\ index' = Start + 1 /\ browsing' = TRUE
            /\ line' = inputHistory[index' + 1]
       ELSE /\ index' = Len(inputHistory) /\ browsing' = FALSE
            /\ line' = Kept
    /\ UNCHANGED <<inputHistory, table, typed, said, unsaved>>

(* Faulty variant: the oldest rows are kept.                               *)
SaveOldest(s, e) ==
    /\ table' = [table EXCEPT ![s] =
           IF Len(@) < Limit THEN Append(@, e) ELSE SubSeq(@, 1, Limit)]
    /\ UNCHANGED unsaved

(* AppendSessionInputHistory: the entry is inserted, and then what is      *)
(* beyond the limit is deleted.  The first statement may fail, or the      *)
(* second; a program that dies between them leaves what a failed second    *)
(* one leaves.                                                             *)
Save(s, e) ==
    \/ table' = [table EXCEPT ![s] = Newest(Append(@, e))] /\ UNCHANGED unsaved
    \/ table' = [table EXCEPT ![s] = Append(@, e)] /\ UNCHANGED unsaved
    \/ UNCHANGED table /\ unsaved' = unsaved \cup {s}

(* Enter: the highlighted completion, or else the line.  A prompt that is  *)
(* refused, since the planner has no model, stays in the line: no step.    *)
Enter(s) ==
    /\ \E e \in IF Suggestions(line) # {} THEN Suggestions(line) ELSE {line} \ {Empty} :
          /\ inputHistory' = Newest(Append(inputHistory, e))
          /\ said' = [said EXCEPT ![s] = Newest(Append(@, e))]
          /\ Save(s, e)
    /\ line' = Empty /\ typed' = Empty
    /\ ResetNavigation

-----------------------------------------------------------------------------
(* Up brings back an entry that exists, and Down past the newest one the   *)
(* line that stood there before the first Up (app_test.go:374,             *)
(* TestInputHistoryNavigationPreservesDraft), whatever was erased or       *)
(* completed on the way.                                                   *)
RecallIsSafe ==
    IF browsing THEN index < Len(inputHistory) /\ draft = typed
                ELSE line = typed

(* The table holds the newest entries of each session in their order, also *)
(* after restarts, failed trims and crashes between the two statements, as *)
(* long as no insert failed.                                               *)
HistoryKept == \A s \in Sessions \ unsaved : Newest(table[s]) = said[s]
=============================================================================
