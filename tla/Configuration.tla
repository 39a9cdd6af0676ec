----------------------------- MODULE Configuration -----------------------------
(***************************************************************************)
(* From the command line to the main loop: the options, the modeline or    *)
(* shebang of the first configuration file, which is turned into options,  *)
(* the search for a file that works, and the screen, which the manager     *)
(* finds before the file runs or, with --screen off, the file makes.       *)
(* Text is a sequence of characters; "n" stands for the letters of         *)
(* awesome_mode, "k" and "v" for any other ones.                           *)
(*                                                                         *)
(* Source: options.c, main of awesome.c, luaA_loadrc, luaA_parserc,        *)
(* luaA_find_config and luaA_quit of luaa.c.                               *)
(***************************************************************************)
EXTENDS Integers, Sequences, SequencesExt, FiniteSets

CONSTANTS
    Before, After,  \* lines there may be before and after a modeline
    MaxKeys,        \* bound: keys of a modeline
    Values,         \* values of its keys
    KeyBuf,         \* KEY_VALUE_BUF_MAX
    ReadBuf         \* READ_BUF_MAX

\* what the reader tells apart, and "k" and "v" for all else
Letter == {"blank", "-", "#", "!", "n", ":", "=", "comma", "\n", "k", "v"}

\* A line of code, or a comment: its text is not blank and does not begin with
\* awesome_mode and a colon.
NoModeline(l) ==
    /\ l # <<>>
    /\ l[1] \in {"blank", "-"} =>
         \E i \in 2..Len(l) : l[i] \notin {"blank", "-", "n", ":", "\n"} /\ \A j \in 2..(i - 1) : l[j] \in {"blank", "-", "n"}

\* What fgets reads at once leaves room for the terminator. It reads a line in
\* pieces; one begins at each place p with p % PieceLen = 1.
PieceLen == ReadBuf - 1
PieceAt(l, p) == SubSeq(l, p, IF Len(l) < p + PieceLen THEN Len(l) ELSE p + PieceLen - 1)

\* feof, when a piece has been read
AtEnd(q) == Last(q) # "\n" /\ Len(q) < PieceLen

\* mutant: a piece is looked at up to its last character
LooksAtAll(q) == q

\* Unless the file ends there, the last character of a piece, most often the
\* newline, is not looked at.
Looked(q) == IF Len(q) = 1 \/ AtEnd(q) THEN q ELSE Front(q)

\* lines with their newlines; the file does not begin with a shebang
ASSUME LinesAssumption ==
    /\ Before \subseteq Seq(Seq(Letter)) /\ After \subseteq Seq(Seq(Letter))
    /\ \A t \in Before \cup After : \A i \in DOMAIN t :
         t[i] # <<>> /\ \A p \in DOMAIN t[i] : p % PieceLen = 1 => NoModeline(Looked(PieceAt(t[i], p)))
    /\ \A b \in Before : \A i \in DOMAIN b : Last(b[i]) = "\n" /\ (i = 1 => b[i][1] # "#")
    /\ \A a \in After : \A i \in DOMAIN a : i < Len(a) => Last(a[i]) = "\n"

\* a key of one letter and each value fit; so does the beginning of a modeline
ASSUME KeyBufAssumption == KeyBuf \in Nat /\ KeyBuf > 3
ASSUME ValuesAssumption == Values \subseteq Seq({"v", "n"}) /\ \A v \in Values : v # <<>> /\ Len(v) < KeyBuf
ASSUME ReadBufAssumption == ReadBuf \in Nat /\ ReadBuf > 8
ASSUME MaxKeysAssumption == MaxKeys \in Nat

VARIABLES
    cmd,      \* the command line: --config, --screen, --force, --check
    file,     \* the files: whether they exist, and what becomes of loading them
    lines,    \* the lines of FirstFile; the last one may lack its newline
    keys,     \* the modeline in it, as keys with their values
    step,     \* where main is
    args,     \* what options_init_config made of the modeline
    noAuto,   \* globalconf.no_auto_screen
    haveScreen,  \* there is a screen
    left,     \* files that luaA_find_config has still to try
    chosen,   \* the file that was loaded, or "none"
    ran,      \* files of which some part ran
    errors,   \* globalconf.startup_errors
    loop      \* globalconf.loop: "nil", "new", "quit"

configVars == <<cmd, file, lines, keys, step, args, noAuto, haveScreen, left, chosen, ran, errors, loop>>

File == {"arg", "user", "default"}
ScreenArg == {"unset", "on", "off"}

ConfigTypeOK ==
    /\ cmd \in [config : BOOLEAN, screen : ScreenArg, force : BOOLEAN, check : BOOLEAN]
    /\ step \in {"options", "modeline", "lua", "early", "screens", "late", "scanned", "loop",
                 "checked", "fatal", "ended"}
    /\ left \in Seq(File) /\ chosen \in File \cup {"none"} /\ ran \subseteq File /\ errors \in Seq(File)
    /\ noAuto \in BOOLEAN /\ haveScreen \in BOOLEAN /\ loop \in {"nil", "new", "quit"}

----------------------------------------------------------------------------
(* options_init_config: a state machine over characters. *)

Name == <<"n", "n", ":">>
ReaderStart == [state |-> "init", mode |-> "none", pos |-> 0, buf |-> <<>>, argv |-> <<>>]

To(s, state) == [s EXCEPT !.state = state]
Keep(s, state, c) == [s EXCEPT !.state = state, !.buf = Append(@, c)]

\* push_arg
Push(s, state) == [s EXCEPT !.state = state, !.argv = Append(@, s.buf), !.buf = <<>>]

\* mutant: keys of a modeline are taken as they are
BareKey(s, c) == Keep(s, "key", c)

\* in a modeline all keys are the long name
FirstOfKey(s, c) == IF s.mode = "line" THEN [s EXCEPT !.state = "key", !.buf = <<"-", "-", c>>] ELSE Keep(s, "key", c)

ReadStep(s, c) ==
    CASE s.state = "init" /\ c = "#" -> To(s, "shebang")
      [] s.state \in {"init", "newline"} /\ c \in {"blank", "-"} -> To(s, "comment")
      [] s.state = "comment" /\ c = "-" -> To(s, "modeline")
      [] s.state = "modeline" /\ c = "blank" -> s
      [] s.state = "modeline" /\ c = Name[s.pos + 1] ->
            IF s.pos + 1 = Len(Name) THEN [s EXCEPT !.pos = 0, !.state = "delim", !.mode = "line"]
            ELSE [s EXCEPT !.pos = @ + 1]
      [] s.state = "shebang" /\ c = "!" -> [s EXCEPT !.state = "delim", !.mode = "shebang"]
      [] s.state = "delim" -> IF c \in {"blank", ":", "="} THEN s ELSE IF c = "\n" THEN To(s, "error") ELSE FirstOfKey(s, c)
      [] s.state = "key" -> IF c = "=" THEN Push(s, "valuedelim") ELSE IF c \in {"blank", ":"} THEN Push(s, "delim")
                            ELSE Keep(s, "key", c)
      [] s.state = "valuedelim" -> IF c = "blank" THEN s ELSE IF c = "\n" THEN To(s, "error")
                                   ELSE IF c = ":" THEN To(s, "delim") ELSE Keep(s, "value", c)
      [] s.state = "value" -> IF c \in {"comma", "blank", ":"} THEN Push(s, "delim") ELSE IF c = "\n" THEN To(s, "complete")
                              ELSE Keep(s, "value", c)
      [] s.state = "modeline" /\ c \notin {"blank", Name[s.pos + 1]} -> [s EXCEPT !.state = "invalid", !.pos = 0]
      [] OTHER -> To(s, "invalid")

Stopped(s) == s.state \in {"invalid", "complete", "error"}

\* a character; a key that is too long is an error
Char(s, c) ==
    IF Stopped(s) THEN s
    ELSE IF Len(ReadStep(s, c).buf) >= KeyBuf THEN To(ReadStep(s, c), "error") ELSE ReadStep(s, c)

\* the characters of a line, up to one that shows it is no modeline
Chars(s, l) ==
    LET from[i \in 0..Len(l)] == IF i = 0 THEN s ELSE Char(from[i - 1], l[i])
    IN  from[Len(l)]

\* mutant: what is in the buffer at the end of a line is not pushed
DropLast(s) == s

\* a key or value ends with its line
EndOfLine(s) == IF s.state \in {"key", "value"} THEN Push(s, "newline") ELSE s

\* A piece of a line is taken for a line. What is in the buffer at the end of
\* a last one that has no newline is lost.
Piece(s, q) ==
    IF s.state \in {"complete", "error"} \/ (q = <<"\n">> /\ s.state = "newline") THEN s
    ELSE IF AtEnd(q) THEN Chars(s, q)
    ELSE LET t == EndOfLine(Chars(s, Looked(q)))
         IN  IF t.state \in {"error", "complete"} THEN t ELSE To(t, "newline")

\* a line, as fgets reads it
Line(s, l) ==
    LET from[p \in 0..Len(l)] ==
            IF p = 0 THEN s
            ELSE IF p % PieceLen = 1 THEN Piece(from[p - 1], PieceAt(l, p)) ELSE from[p - 1]
    IN  from[Len(l)]

Lines(text) ==
    LET from[i \in 0..Len(text)] == IF i = 0 THEN ReaderStart ELSE Line(from[i - 1], text[i])
    IN  from[Len(text)]

Modeline(text) == Lines(text).argv

----------------------------------------------------------------------------
(* Options and files. *)

Fatal == step' = "fatal" /\ UNCHANGED <<cmd, file, lines, keys, args, noAuto, haveScreen, left, chosen, ran, errors, loop>>

\* options_check_args: --check looks at the first file only, and runs nothing
Options ==
    /\ step = "options"
    /\ noAuto' = (cmd.screen = "off")
    /\ step' = IF cmd.check THEN "checked" ELSE IF cmd.force THEN "lua" ELSE "modeline"
    /\ UNCHANGED <<cmd, file, lines, keys, args, haveScreen, left, chosen, ran, errors, loop>>

\* mutant: the options of the modeline do not count when there are some already
FirstWins(given) == IF cmd.screen # "unset" THEN cmd.screen ELSE given

\* options_init_config runs after options_check_args, on the same flags
LaterWins(given) == IF given = "unset" THEN cmd.screen ELSE given

\* What the words of the modeline say of --screen: "k" stands for --screen, "v"
\* and "nn" for on and off, and there is no other value. The last one counts; one
\* without a value is no option.
On == <<"v">>
Off == <<"n", "n">>
Given(argv) ==
    LET key == <<"-", "-", "k">>
        from[i \in 1..(Len(argv) + 2)] ==
            IF i >= Len(argv) THEN <<>>
            ELSE IF argv[i] # key THEN from[i + 1]
            ELSE <<argv[i + 1]>> \o from[i + 2]
        values == from[1]
    IN  IF values = <<>> THEN "unset"
        ELSE IF ~ToSet(values) \subseteq {On, Off} THEN "bad"
        ELSE IF Last(values) = On THEN "on" ELSE "off"

ReadModeline ==
    /\ step = "modeline"
    /\ args' = Modeline(lines)
    /\ noAuto' = (LaterWins(Given(args')) = "off")
    /\ step' = IF Given(args') = "bad" THEN "fatal" ELSE "lua"
    /\ UNCHANGED <<cmd, file, lines, keys, haveScreen, left, chosen, ran, errors, loop>>

Candidates ==
    (IF cmd.config THEN <<"arg">> ELSE <<>>) \o (IF file.user = "missing" THEN <<>> ELSE <<"user">>) \o <<"default">>

\* luaA_parserc before or after the screens
StartSearch ==
    /\ step = "lua" /\ left' = Candidates
    /\ step' = IF noAuto THEN "early" ELSE "screens"
    /\ UNCHANGED <<cmd, file, lines, keys, args, noAuto, haveScreen, chosen, ran, errors, loop>>

\* screen_scan
ScanScreens ==
    /\ step = "screens"
    /\ haveScreen' = (haveScreen \/ ~noAuto)
    /\ step' = IF noAuto THEN "scanned" ELSE "late"
    /\ UNCHANGED <<cmd, file, lines, keys, args, noAuto, left, chosen, ran, errors, loop>>

\* mutant: only the last error is kept
LastError(f) == <<f>>

\* luaA_startup_error
WithError(f) == Append(errors, f)

\* luaA_loadrc and luaA_find_config: what a file did before it failed stays; a
\* file may make a screen and may quit
Load(makes, quits) ==
    /\ step \in {"early", "late"} /\ chosen = "none" /\ left # <<>>
    /\ LET f == Head(left) IN
       /\ left' = Tail(left)
       /\ ran' = IF file[f] \in {"fails", "works"} THEN ran \cup {f} ELSE ran
       /\ IF file[f] = "works" THEN chosen' = f /\ UNCHANGED errors ELSE errors' = WithError(f) /\ UNCHANGED chosen
       /\ makes \/ quits => file[f] \in {"fails", "works"}
    /\ haveScreen' = (haveScreen \/ makes)
    /\ loop' = IF quits THEN "quit" ELSE loop
    /\ UNCHANGED <<cmd, file, lines, keys, step, args, noAuto>>

Loaded ==
    /\ step \in {"early", "late"} /\ chosen # "none"
    /\ step' = IF step = "early" THEN "screens" ELSE "scanned"
    /\ UNCHANGED <<cmd, file, lines, keys, args, noAuto, haveScreen, left, chosen, ran, errors, loop>>

NoFile == step \in {"early", "late"} /\ chosen = "none" /\ left = <<>> /\ Fatal

\* the handlers of "scanned" may make a screen; without one it ends here
ScreenFound(makes) ==
    /\ step = "scanned"
    /\ haveScreen' = (haveScreen \/ makes)
    /\ step' = IF noAuto /\ ~haveScreen' THEN "fatal" ELSE "loop"
    /\ UNCHANGED <<cmd, file, lines, keys, args, noAuto, left, chosen, ran, errors, loop>>

\* the main loop, unless awesome.quit was called before it; and its end
RunLoop ==
    /\ step = "loop" /\ loop = "nil" /\ loop' = "new"
    /\ UNCHANGED <<cmd, file, lines, keys, step, args, noAuto, haveScreen, left, chosen, ran, errors>>
QuitLoop ==
    /\ step = "loop" /\ loop # "nil" /\ step' = "ended" /\ loop' = "nil"
    /\ UNCHANGED <<cmd, file, lines, keys, args, noAuto, haveScreen, left, chosen, ran, errors>>

----------------------------------------------------------------------------

\* a well-formed modeline: keys with values; <<>> is no value
Mark == <<"-", "-", "blank">> \o Name
Word(k) == IF k.value = <<>> THEN <<"k">> ELSE <<"k", "=">> \o k.value
WellFormed(ks) ==
    Mark \o FlattenSeq([i \in DOMAIN ks |-> Word(ks[i]) \o (IF i = Len(ks) THEN <<>> ELSE <<":">>)]) \o <<"\n">>

Keys == UNION {[1..n -> [key : {"k"}, value : Values \cup {<<>>}]] : n \in 0..MaxKeys}
Texts(ks) == {p[1] \o <<WellFormed(ks)>> \o p[2] : p \in Before \X After}

\* the file that is read for a modeline, whether it will work or not
FirstFile == IF cmd.config THEN "arg" ELSE IF file.user # "missing" THEN "user" ELSE "default"

ConfigInit ==
    /\ cmd \in [config : BOOLEAN, screen : ScreenArg, force : BOOLEAN, check : BOOLEAN]
    /\ file \in [arg : {"missing", "fails", "works"}, user : {"missing", "syntax", "fails", "works"},
                default : {"syntax", "fails", "works"}]
    /\ ~cmd.config => file.arg = "missing"
    /\ IF file[FirstFile] = "missing" THEN keys = <<>> /\ lines = <<>> ELSE keys \in Keys /\ lines \in Texts(keys)
    /\ step = "options" /\ args = <<>> /\ noAuto = FALSE /\ haveScreen = FALSE
    /\ left = <<>> /\ chosen = "none" /\ ran = {} /\ errors = <<>> /\ loop = "nil"

ConfigNext ==
    \/ Options \/ ReadModeline \/ StartSearch \/ ScanScreens \/ Loaded \/ NoFile \/ RunLoop \/ QuitLoop
    \/ \E m, q \in BOOLEAN : Load(m, q)
    \/ \E m \in BOOLEAN : ScreenFound(m)

ConfigSpec == ConfigInit /\ [][ConfigNext]_configVars

----------------------------------------------------------------------------
(* Properties. *)

\* The words of a well-formed modeline: each key with two dashes, and its value.
WordsOf(k) == <<(<<"-", "-", "k">>)>> \o (IF k.value = <<>> THEN <<>> ELSE <<k.value>>)
Words(ks) == FlattenSeq([i \in DOMAIN ks |-> WordsOf(ks[i])])

\* What the first n characters of a modeline show of its keys: those that begin
\* there, of the last one what is there of its value.
Cut(s, n) == SubSeq(s, 1, IF n < Len(s) THEN n ELSE Len(s))
Offset(ks, i) == Len(Mark \o FlattenSeq([j \in 1..(i - 1) |-> Word(ks[j]) \o <<":">>]))
Shown(ks, n) ==
    LET shown == {i \in DOMAIN ks : Offset(ks, i) < n}
    IN  [i \in shown |-> [ks[i] EXCEPT !.value = Cut(@, n - Offset(ks, i) - 2)]]

\* A modeline that fits into the buffer gives exactly its words, wherever in
\* the file it stands and whatever comments and code stand before and after it;
\* code and other comments give none. Of a longer modeline the first
\* READ_BUF_MAX - 2 characters count: the keys that begin in them give their
\* words, the last value cut where they end, and the rest of the line gives
\* none (options_init_config).
ModelineRead == step = "lua" /\ ~cmd.force => args = Words(Shown(keys, PieceLen - 1))

\* The main loop runs with the first file that works, in the order --config, the
\* user's, the default; every file before it was tried and its error recorded,
\* no file after it ran; and there is a screen, found before the file ran or
\* made by a file that ran before the search (luaA_find_config, luaA_loadrc,
\* main).
LoopHasConfig ==
    step = "loop" =>
        /\ chosen # "none" /\ file[chosen] = "works" /\ haveScreen
        /\ \E i \in DOMAIN Candidates : Candidates[i] = chosen /\ errors = SubSeq(Candidates, 1, i - 1)
        /\ \A f \in ToSet(Candidates) \ (ToSet(errors) \cup {chosen}) : f \notin ran

\* --screen of the modeline, which is read later, wins over the command line,
\* unless --force says that the modeline does not count (options_check_args).
\* What the buffer cuts off says nothing.
ScreenOption ==
    LET given == Given(Words(Shown(keys, PieceLen - 1)))
    IN  step = "loop" => noAuto = ((IF cmd.force \/ given = "unset" THEN cmd.screen ELSE given) = "off")

\* options.c, luaA_parserc: the modeline is read as it is written, as far as the
\* buffer goes, the loop starts with a configuration or not at all, and the last
\* word about automatic screens counts.
Configured == ConfigTypeOK /\ ModelineRead /\ LoopHasConfig /\ ScreenOption
=============================================================================
