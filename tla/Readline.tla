------------------------------ MODULE Readline ------------------------------
(***************************************************************************)
(* The line editor (lib/readline) in the serial terminal that uses it      *)
(* (user/serial_terminal/main.c): bytes of the keys come one by one, in    *)
(* reads that may end inside a key's sequence; the editor changes its      *)
(* line, redraws it on the screen, and hands a line to the child process.  *)
(* The child may turn the echo off before a line, and ask for the bytes    *)
(* themselves (direct I/O) at any time.                                    *)
(*                                                                         *)
(* The screen is the row of the line and the column of the cursor, changed *)
(* by what _redraw_line writes.  Sequences that are no key's are left out; *)
(* the child's own output, and its requests, come between keys.            *)
(***************************************************************************)
EXTENDS Integers, Sequences, SequencesExt

CONSTANTS
    Plain,          \* characters, with a key each
    Space,          \* the character that separates words
    Quote,          \* the double quote
    Backslash,
    Words,          \* external: the words of the autocompletion, sorted
    MaxLine,        \* max_line_length
    MaxHistory,     \* max_history_length
    MaxEntered      \* bound: lines and bytes handed to the child

VARIABLES
    state,          \* readline_state_t
    screen,         \* external: row, column, and the column where the line began
    direct,         \* ctrl_direct_io
    reading,        \* bytes of the read in progress are still to come
    sent, count,    \* what the last step wrote to the child; how often one wrote
    entered, lines, \* history: what it was to get; the latest lines, without repeats
    typed           \* history: the line before a completion

vars == <<state, screen, direct, reading, sent, count, entered, lines, typed>>

NoLine == <<"none">>
NoWords == [prefix |-> NoLine, offset |-> 0, index |-> 0, data |-> <<>>]

(* readline_state_init                                                     *)
Init ==
    /\ state = [event |-> "none", line |-> <<>>, echo |-> TRUE, auto |-> NoWords,
                history |-> <<>>, cursor |-> 0, history_index |-> 0, last |-> 0,
                escape |-> "none", data |-> <<>>]
    /\ screen = [row |-> <<>>, column |-> 0, start |-> 0]
    /\ direct = FALSE /\ reading = FALSE
    /\ sent = <<>> /\ count = 0 /\ entered = <<>> /\ lines = <<>> /\ typed = <<>>

-----------------------------------------------------------------------------
(* A step of the editor is a function of its state and the screen.         *)
Redraw(r, newline) ==
    LET from == r.screen.column - r.state.last
        row == SubSeq(r.screen.row, 1, from) \o r.state.line
    IN  IF ~r.state.echo THEN r
        ELSE [state |-> [r.state EXCEPT !.last = r.state.cursor],
              screen |-> IF newline THEN [row |-> <<>>, column |-> 0, start |-> 0]
                         ELSE [r.screen EXCEPT !.row = row, !.column = from + r.state.cursor]]

Edit(r, line, cursor) == [r EXCEPT !.state.line = line, !.state.cursor = cursor]

EmitCharacter(r, c) ==
    IF Len(r.state.line) >= MaxLine THEN r
    ELSE Edit(r, InsertAt(r.state.line, r.state.cursor + 1, c), r.state.cursor + 1)

RemoveCharacter(r) == Edit(r, RemoveAt(r.state.line, r.state.cursor + 1), r.state.cursor)

KeepAutocomplete(r) == [r EXCEPT !.state.auto = NoWords]

(* _expand_history                                                         *)
ExpandHistory(history, line) ==
    IF line = <<>> \/ (history # <<>> /\ Head(history) = line) THEN history
    ELSE <<line>> \o SubSeq(history, 1, IF Len(history) = MaxHistory THEN MaxHistory - 1 ELSE Len(history))

(* _get_autocomplete_prefix: where the last word of the line begins, and   *)
(* whether a quote is still open at the end                                *)
Scan(line) ==
    LET step(s, i) ==
          IF s.quoted THEN [s EXCEPT !.quoted = line[i] # Quote \/ line[i - 1] = Backslash]
          ELSE [quoted |-> line[i] = Quote, offset |-> IF line[i] = Space THEN i ELSE s.offset]
    IN  FoldLeftDomain(step, [quoted |-> FALSE, offset |-> 0], line)

(* _quote_string, for the words that need it                               *)
Escaped == {Quote, Backslash}
NeedsQuotes(word) == \E i \in DOMAIN word : word[i] \in Escaped \union {Space}
Quoted(word) ==
    LET character(c) == IF c \in Escaped THEN <<Backslash, c>> ELSE <<c>>
    IN  <<Quote>> \o FlattenSeq([i \in DOMAIN word |-> character(word[i])]) \o <<Quote>>

(* _unquote_string; the quotes themselves stay                             *)
Unquoted(word) ==
    LET step(s, c) ==
          IF s.escaped THEN [escaped |-> FALSE,
                             out |-> s.out \o IF c \in Escaped THEN <<c>> ELSE <<Backslash, c>>]
          ELSE IF c = Backslash THEN [s EXCEPT !.escaped = TRUE]
          ELSE [s EXCEPT !.out = Append(@, c)]
        end == FoldLeft(step, [escaped |-> FALSE, out |-> <<>>], word)
    IN  IF end.escaped THEN Append(end.out, Backslash) ELSE end.out

RedrawAutocomplete(r, word) ==
    LET shown == IF NeedsQuotes(word) THEN Quoted(word) ELSE word
        line == SubSeq(r.state.line, 1, r.state.auto.offset) \o shown
        cut == SubSeq(line, 1, IF Len(line) > MaxLine THEN MaxLine ELSE Len(line))
    IN  Edit(r, cut, Len(cut))

LastWord(line) == SubSeq(line, Scan(line).offset + 1, Len(line))

StartAutocomplete(r) ==
    LET prefix == Unquoted(LastWord(r.state.line))
        data == SelectSeq(Words, LAMBDA w : IsPrefix(prefix, w))
        auto == [prefix |-> prefix, offset |-> Scan(r.state.line).offset, index |-> 0, data |-> data]
    IN  IF data = <<>> THEN r
        ELSE Redraw(RedrawAutocomplete([r EXCEPT !.state.auto = auto], data[1]), FALSE)

ShowAutocomplete(r, index) ==
    Redraw(RedrawAutocomplete([r EXCEPT !.state.auto.index = index],
                              r.state.auto.data[index + 1]), FALSE)
PrevAutocomplete(r) ==
    LET auto == r.state.auto
    IN  ShowAutocomplete(r, (IF auto.index > 0 THEN auto.index ELSE Len(auto.data)) - 1)
NextAutocomplete(r) ==
    LET auto == r.state.auto
    IN  ShowAutocomplete(r, IF auto.index + 1 >= Len(auto.data) THEN 0 ELSE auto.index + 1)

\* Faulty variant: the line keeps the word that was shown.
CancelAutocompleteKeeping(r) == Redraw(KeepAutocomplete(r), FALSE)

CancelAutocomplete(r) == Redraw(KeepAutocomplete(RedrawAutocomplete(r, r.state.auto.prefix)), FALSE)

-----------------------------------------------------------------------------
(* _process_csi_sequence                                                   *)
ShowHistory(r, index) ==
    LET line == r.state.history[index + 1]
    IN  Redraw(Edit([r EXCEPT !.state.history_index = index], line, Len(line)), FALSE)

HistoryUp(r) ==
    LET s == r.state
        same == s.line # <<>> /\ IsPrefix(s.line, s.history[1])
        index == IF s.history_index > 0 \/ same THEN s.history_index + 1 ELSE 0
    IN  IF s.history = <<>> THEN r
        ELSE IF index >= Len(s.history) THEN [r EXCEPT !.state.history_index = Len(s.history) - 1]
        ELSE ShowHistory(r, index)

HistoryDown(r) ==
    IF r.state.history_index = 0 THEN r ELSE ShowHistory(r, r.state.history_index - 1)

MoveCursor(r, cursor) ==
    IF cursor = r.state.cursor THEN r ELSE Redraw([r EXCEPT !.state.cursor = cursor], FALSE)

\* Faulty variant: the character is removed and not drawn.
DeleteUndrawn(r) ==
    IF r.state.cursor < Len(r.state.line) THEN RemoveCharacter(r) ELSE r

Delete(r) ==
    IF r.state.cursor < Len(r.state.line) THEN Redraw(RemoveCharacter(r), FALSE) ELSE r

ProcessCsiSequence(r, data) ==
    LET kept == KeepAutocomplete(r)
        s == r.state
    IN  CASE data = <<"A">> -> HistoryUp(kept)
          [] data = <<"B">> -> HistoryDown(kept)
          [] data = <<"C">> -> IF s.cursor < Len(s.line) THEN MoveCursor(kept, s.cursor + 1) ELSE r
          [] data = <<"D">> -> MoveCursor(kept, IF s.cursor > 0 THEN s.cursor - 1 ELSE 0)
          [] data = <<"H">> -> MoveCursor(kept, 0)
          [] data = <<"F">> -> MoveCursor(kept, Len(s.line))
          [] data = <<"Z">> -> IF s.auto = NoWords THEN r ELSE PrevAutocomplete(r)
          [] data = <<"3", "~">> -> Delete(kept)

-----------------------------------------------------------------------------
(* readline_process for one byte: the part on escape sequences says what   *)
(* becomes of the byte, and the rest is for a byte of its own.             *)
Backspace(r) ==
    IF r.state.cursor = 0 THEN r
    ELSE Redraw(RemoveCharacter([r EXCEPT !.state.cursor = @ - 1]), FALSE)

Enter(r) ==
    LET drawn == Redraw([r EXCEPT !.state.cursor = Len(r.state.line)], TRUE)
    IN  [drawn EXCEPT !.state.history = ExpandHistory(@, r.state.line),
                      !.state.line = Append(@, "\n"), !.state.event = "line"]

OwnByte(r, b) ==
    LET kept == KeepAutocomplete(r)
    IN  CASE b = "int" -> [r EXCEPT !.state.event = "cancel"]
          [] b = "bs" -> Backspace(kept)
          [] b = "tab" -> IF r.state.auto.data = <<>> THEN StartAutocomplete(r) ELSE NextAutocomplete(r)
          [] b = "enter" -> Enter(kept)
          [] b = "esc" -> [r EXCEPT !.state.escape = "init"]
          [] OTHER -> Redraw(EmitCharacter(kept, b), FALSE)

Completing(r) == r.state.auto.data # <<>>
AfterEscape(r) ==
    [(IF Completing(r) THEN CancelAutocomplete(r) ELSE r) EXCEPT !.state.escape = "none"]

Byte(r, b) ==
    LET s == r.state
        ended == [r EXCEPT !.state.escape = "none"]
    IN  CASE s.escape = "init" /\ b = "[" -> [r EXCEPT !.state.escape = "csi", !.state.data = <<>>]
          [] s.escape = "init" /\ b # "[" -> OwnByte(AfterEscape(r), b)
          [] s.escape = "csi" /\ b = "3" -> [r EXCEPT !.state.data = Append(@, b)]
          [] s.escape = "csi" /\ b \in {"A", "B", "C", "D", "H", "F", "Z", "~"} ->
                LET done == ProcessCsiSequence(r, Append(s.data, b))
                IN  [done EXCEPT !.state.escape = "none", !.state.data = <<>>]
          [] OTHER -> OwnByte(ended, b)

\* readline_state_reset: the next line begins where the cursor is.
Reset(r) ==
    [KeepAutocomplete(r) EXCEPT !.state.line = <<>>, !.state.cursor = 0, !.state.history_index = 0,
                                !.state.last = 0, !.screen.start = r.screen.column]

(* The bytes of a read that are left when it ends inside an escape         *)
(* sequence: a lone escape ends the autocompletion.                        *)
EndOfRead(r) ==
    IF r.state.escape = "init" /\ Completing(r) THEN CancelAutocomplete(r) ELSE r

Process(b, last) ==
    LET now == [state |-> state, screen |-> screen]
        begun == [(IF state.event = "line" THEN Reset(now) ELSE now) EXCEPT !.state.event = "none"]
        byte == Byte(begun, b)
        ended == IF last /\ byte.state.event = "none" THEN EndOfRead(byte) ELSE byte
    IN  state' = ended.state /\ screen' = ended.screen

-----------------------------------------------------------------------------
\* A completed word that an escape brings back as it was typed.
Undoable(line) == ~NeedsQuotes(LastWord(line))

\* History: the line as the user has it; an escape takes a completion back.
Meant ==
    IF state.event = "line" THEN <<>>
    ELSE IF state.auto = NoWords \/ state.escape # "init" THEN state.line
    ELSE IF Undoable(typed) THEN typed
    ELSE CancelAutocomplete([state |-> state, screen |-> screen]).state.line

(* What a terminal sends next: a key's byte, or more of its sequence.  No  *)
(* completion begins in a line whose last quote is open, where the code    *)
(* reads on behind the line's end.                                         *)
Bytes ==
    LET complete == IF Scan(Meant).quoted THEN {} ELSE {"tab"}
        own == Plain \union {Space, "bs", "enter", "esc", "int"} \union complete
    IN  CASE count = MaxEntered -> {}
          [] state.escape = "none" -> own
          [] state.escape = "init" -> own \union {"["}
          [] state.data = <<>> -> {"A", "B", "C", "D", "H", "F", "Z", "3"}
          [] OTHER -> {"~"}

\* The last lines that are not empty, without those that repeat the one before.
Remember(line) ==
    LET all == Append(lines, line)
    IN  IF line = <<>> \/ (lines # <<>> /\ Last(lines) = line) THEN lines
        ELSE IF Len(all) > MaxHistory THEN Tail(all) ELSE all

(* _input_thread without direct I/O.  Where a read ends matters to the      *)
(* editor only after an escape.                                            *)
Input(b, last) ==
    /\ ~direct /\ (last \/ b = "esc")
    /\ Process(b, last) /\ reading' = ~last
    /\ typed' = IF state'.auto = NoWords THEN <<>>
                ELSE IF state.auto = NoWords THEN Meant ELSE typed
    /\ IF state'.event = "line"
       THEN /\ sent' = <<state'.line>> /\ entered' = <<Append(Meant, "\n")>>
            /\ count' = count + 1 /\ lines' = Remember(Meant)
       ELSE sent' = <<>> /\ entered' = <<>> /\ UNCHANGED <<count, lines>>
    /\ UNCHANGED direct

(* _input_thread with direct I/O, where the value of a byte plays no part:  *)
(* what the screen shows is the child's.                                   *)
DirectInput(c) ==
    LET now == [state |-> state, screen |-> [row |-> <<>>, column |-> 0, start |-> 0]]
        line == IF state.line # <<>> THEN <<state.line>> ELSE <<>>
    IN  /\ direct /\ count < MaxEntered
        /\ sent' = line \o <<<<c>>>> /\ count' = count + 1
        /\ entered' = (IF state.event = "line" THEN <<>> ELSE line) \o <<<<c>>>>
        /\ state' = IF line # <<>> THEN Reset(now).state ELSE state
        /\ screen' = now.screen /\ typed' = <<>>
        /\ UNCHANGED <<direct, reading, lines>>

(* The child's requests; it turns the echo off and on between lines.       *)
BetweenKeys == state.escape # "csi" /\ ~reading /\ count < MaxEntered
SetDirect ==
    /\ BetweenKeys /\ direct' = ~direct /\ sent' = <<>> /\ entered' = <<>>
    /\ UNCHANGED <<state, screen, reading, count, lines, typed>>
SetEcho ==
    /\ state.line = <<>> \/ state.event = "line"
    /\ BetweenKeys /\ state' = [state EXCEPT !.echo = ~@] /\ sent' = <<>> /\ entered' = <<>>
    /\ UNCHANGED <<screen, direct, reading, count, lines, typed>>

Next ==
    \/ \E b \in Bytes, last \in BOOLEAN : Input(b, last)
    \/ \E c \in Plain : DirectInput(c)
    \/ SetDirect
    \/ SetEcho

Spec == Init /\ [][Next]_vars

-----------------------------------------------------------------------------
(* After every byte the screen shows the line, with the cursor in its      *)
(* place, or nothing of it when the echo is off.                           *)
ScreenShowsLine ==
    LET shown == SubSeq(screen.row, screen.start + 1, Len(screen.row))
    IN  state.event # "line" /\ ~direct =>
          IF state.echo THEN shown = state.line /\ screen.column = screen.start + state.cursor
          ELSE shown = <<>>

(* Whichever word is offered, an escape brings back the line as typed,     *)
(* unless its last word has a character that is quoted.  What comes before *)
(* that word is kept in any case.                                          *)
CompletionIsUndone ==
    LET now == [state |-> state, screen |-> screen]
        back == CancelAutocomplete(now).state.line
    IN  Completing(now) => /\ Undoable(typed) => back = typed
                           /\ IsPrefix(SubSeq(typed, 1, Scan(typed).offset), back)

(* The child gets every line and byte once, in order, unless direct I/O is *)
(* asked for after a line and before another key: the line is then still   *)
(* in the buffer and written again.                                        *)
SentIsEntered == sent = entered \/ (direct /\ state.event = "line")

(* The history has the latest lines that are not empty and do not repeat   *)
(* the one before, the latest first, and its index stays in it.            *)
HistoryIsOfLines ==
    /\ state.history = Reverse(lines)
    /\ state.history_index < Len(lines) \/ state.history_index = 0
=============================================================================
