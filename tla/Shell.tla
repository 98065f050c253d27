-------------------------------- MODULE Shell --------------------------------
(***************************************************************************)
(* The line editor of the shell (finsh_thread_entry() in                   *)
(* common/finsh/shell.c): escape sequences, cursor, insertion, deletion,   *)
(* history.  A step is one character.                                      *)
(*                                                                         *)
(*   stat      shell->stat                                                 *)
(*   line      shell->line, FINSH_CMD_SIZE cells, NUL or a printable       *)
(*   pos, cur  line_position, line_curpos                                  *)
(*   history   cmd_history[0 .. history_count - 1], at  current_history    *)
(*   full      the line has filled up since it was last cleared            *)
(*   ran       the last command line handed to msh_exec()                  *)
(*                                                                         *)
(* Completion (the tab key) only lists here; what msh_auto_complete() adds *)
(* to the line is not modelled.                                            *)
(***************************************************************************)
EXTENDS Integers, Sequences

CONSTANTS FINSH_CMD_SIZE, FINSH_HISTORY_LINES

VARIABLES stat, line, pos, cur, history, at, full, ran

vars == <<stat, line, pos, cur, history, at, full, ran>>

NUL == "-"

\* The keys: '[' and the letters of the arrow keys are printable as well.
Keys == {"esc", "[", "A", "B", "C", "D", "y", "nul", "tab", "bs", "cr"}

Glyph(k) == IF k = "y" THEN "y" ELSE "x"

Cells == 0 .. FINSH_CMD_SIZE - 1

Blank == [i \in Cells |-> NUL]

TypeOK ==
    /\ stat \in {"NORMAL", "SPEC", "FUNC"}
    /\ line \in [Cells -> {NUL, "x", "y"}] /\ ran \in [Cells -> {NUL, "x", "y"}]
    /\ pos \in Cells /\ cur \in Cells
    /\ Len(history) <= FINSH_HISTORY_LINES
    /\ at \in 0 .. FINSH_HISTORY_LINES
    /\ full \in BOOLEAN

Init ==
    /\ stat = "NORMAL" /\ line = Blank /\ pos = 0 /\ cur = 0
    /\ history = <<>> /\ at = 0 /\ full = FALSE /\ ran = Blank

\* rt_strlen(shell->line)
Strlen(l) == CHOOSE i \in Cells : l[i] = NUL /\ \A j \in 0 .. i - 1 : l[j] # NUL

\* The arrow keys up and down copy a line of the history.
Recall(i) ==
    /\ at' = i
    /\ line' = history[i + 1]
    /\ pos' = Strlen(line') /\ cur' = Strlen(line')
    /\ full' = FALSE
    /\ UNCHANGED <<history, ran>>

Nothing == UNCHANGED <<line, pos, cur, history, at, full, ran>>

Arrow(k) ==
    \/ k = "A" /\ IF at > 0 THEN Recall(at - 1) ELSE Nothing
    \/ k = "B" /\ IF at < Len(history) - 1 THEN Recall(at + 1)
                  ELSE IF Len(history) # 0 THEN Recall(Len(history) - 1) ELSE Nothing
    \/ k = "C" /\ cur' = (IF cur < pos THEN cur + 1 ELSE cur)
               /\ UNCHANGED <<line, pos, history, at, full, ran>>
    \/ k = "D" /\ cur' = (IF cur > 0 THEN cur - 1 ELSE cur)
               /\ UNCHANGED <<line, pos, history, at, full, ran>>

\* On a line that was given up this is not explored: the line has no NUL then,
\* both positions become FINSH_CMD_SIZE, and the next character resets one.
Tab ==
    /\ ~full
    /\ pos' = Strlen(line) /\ cur' = Strlen(line)
    /\ UNCHANGED <<line, history, at, full, ran>>

\* A mutant: the character after the last one is not wiped.
BackspaceKeepsTail ==
    IF cur = 0 THEN Nothing
    ELSE /\ pos' = pos - 1 /\ cur' = cur - 1
         /\ line' = [i \in Cells |-> IF pos' > cur' /\ i >= cur' /\ i < pos' THEN line[i + 1] ELSE line[i]]
         /\ UNCHANGED <<history, at, full, ran>>

Backspace ==
    IF cur = 0 THEN Nothing
    ELSE /\ pos' = pos - 1 /\ cur' = cur - 1
         /\ line' = [i \in Cells |->
                        IF i = pos' THEN NUL
                        ELSE IF pos' > cur' /\ i >= cur' /\ i < pos' THEN line[i + 1] ELSE line[i]]
         /\ UNCHANGED <<history, at, full, ran>>

\* The first n cells of l, the rest zero: what the history keeps.
Kept(l, n) == [i \in Cells |-> IF i < n THEN l[i] ELSE NUL]

\* A mutant: a full history is shifted but the new line is not stored.
PushLost ==
    IF pos = 0 \/ (history # <<>> /\ history[Len(history)] = line) THEN history
    ELSE IF Len(history) < FINSH_HISTORY_LINES THEN Append(history, Kept(line, pos))
    ELSE Append(Tail(history), Blank)

shell_push_history ==
    IF pos = 0 \/ (history # <<>> /\ history[Len(history)] = line) THEN history
    ELSE IF Len(history) < FINSH_HISTORY_LINES THEN Append(history, Kept(line, pos))
    ELSE Append(Tail(history), Kept(line, pos))

\* The line is kept, run and cleared.
Enter ==
    /\ history' = shell_push_history
    /\ at' = Len(history')
    /\ ran' = IF pos > 0 THEN Kept(line, pos) ELSE ran
    /\ line' = Blank /\ pos' = 0 /\ cur' = 0 /\ full' = FALSE

\* A printable character is inserted at the cursor; a line that is full is
\* given up.
Printable(k) ==
    LET p == IF pos >= FINSH_CMD_SIZE THEN 0 ELSE pos
    IN  /\ line' = [i \in Cells |->
                       IF cur < p THEN IF i = cur THEN Glyph(k)
                                       ELSE IF i > cur /\ i <= p THEN line[i - 1] ELSE line[i]
                       ELSE IF i = p THEN Glyph(k) ELSE line[i]]
        /\ pos' = IF p + 1 >= FINSH_CMD_SIZE THEN 0 ELSE p + 1
        /\ cur' = IF p + 1 >= FINSH_CMD_SIZE THEN 0 ELSE cur + 1
        /\ full' = (full \/ p + 1 >= FINSH_CMD_SIZE)
        /\ UNCHANGED <<history, at, ran>>

\* What a character does when no escape sequence swallows it.
Edit(k) ==
    \/ k = "nul" /\ Nothing
    \/ k = "tab" /\ Tab
    \/ k = "bs" /\ Backspace
    \/ k = "cr" /\ Enter
    \/ k \notin {"nul", "tab", "bs", "cr"} /\ Printable(k)

Character(k) ==
    \/ k = "esc" /\ stat' = "SPEC" /\ Nothing
    \/ k = "[" /\ stat = "SPEC" /\ stat' = "FUNC" /\ Nothing
    \/ k \in {"A", "B", "C", "D"} /\ stat = "FUNC" /\ stat' = "NORMAL" /\ Arrow(k)
    \/ /\ k # "esc" /\ ~(k = "[" /\ stat = "SPEC")
       /\ ~(k \in {"A", "B", "C", "D"} /\ stat = "FUNC")
       /\ stat' = "NORMAL"
       /\ Edit(k)

\* finsh_set_device(): the telnet server switches the shell between two
\* characters and clears the line.
SetDevice ==
    /\ line' = Blank /\ pos' = 0 /\ cur' = 0 /\ full' = FALSE
    /\ UNCHANGED <<stat, history, at, ran>>

Next == SetDevice \/ \E k \in Keys : Character(k)

Spec == Init /\ [][Next]_vars

(***************************************************************************)
(* Properties.                                                             *)
(***************************************************************************)

\* As long as no line has filled up, the cursor stays within the line and the
\* line ends with its only NULs: across insertions, deletions, recalls,
\* completions and changes of the device.
LineWellFormed ==
    ~full => /\ cur <= pos /\ pos < FINSH_CMD_SIZE
             /\ \A i \in Cells : line[i] = NUL <=> i >= pos

\* The newest line of the history is the last one that was run, whole.
HistoryKeepsLast == ran # Blank => history # <<>> /\ history[Len(history)] = ran

\* The comment at the end of finsh_thread_entry(), "clear command line": a line
\* that was given up leaves nothing behind.
GivenUpIsCleared == \A i \in Cells : i >= pos => line[i] = NUL

=============================================================================
