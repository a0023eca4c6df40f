---------------------------- MODULE CommandLine ----------------------------
(***************************************************************************)
(* What is in front of eval in the job-control shell (shell-lab2, tsh.c):  *)
(* the options, the loop that reads a line, and parseline, which makes     *)
(* argv of it.  Standard input is a sequence of characters; the last line  *)
(* may lack its newline, and lines longer than the buffer come in pieces.  *)
(***************************************************************************)
EXTENDS Integers, SequencesExt

CONSTANTS
    Settings,       \* [options, words, gaps, rest]: the command line of the
                    \* shell and what is typed, see Typed
    MAXLINE         \* size of cmdline, the terminator included

VARIABLES
    setting,        \* one of them
    options,        \* getopt: those that are left
    emit_prompt,
    stdin,          \* the characters not read yet
    eof,            \* feof(stdin)
    cmdline,
    evaluated,      \* what eval has been called with: [argv, bg]
    prompts,        \* how many prompts have been written
    at              \* "options", "prompt", "read", "eval", or how the shell ended

vars == <<setting, options, emit_prompt, stdin, eof, cmdline, evaluated, prompts, at>>

Space == " "
Quote == "'"
Newline == "\n"

(* A line of words, typed as a user has to: a word that is empty or has a   *)
(* space in it is quoted; gaps says how many spaces are before each word,   *)
(* and behind the last.  The file is these lines, and rest.                 *)
Spaces(n) == [k \in 1 .. n |-> Space]
Spelled(word) ==
    IF word = << >> \/ Contains(word, Space) THEN <<Quote>> \o word \o <<Quote>> ELSE word
LineOf(words, gaps) ==
    FlattenSeq([k \in 1 .. Len(words) |-> Spaces(gaps[k]) \o Spelled(words[k])])
    \o Spaces(gaps[Len(words) + 1]) \o <<Newline>>
Typed(s) == FlattenSeq([k \in 1 .. Len(s.words) |-> LineOf(s.words[k], s.gaps[k])]) \o s.rest

TypeOK ==
    /\ setting \in Settings /\ Len(cmdline) < MAXLINE
    /\ at \in {"options", "prompt", "read", "eval", "usage", "end", "error"}

Init ==
    /\ setting \in Settings
    /\ options = setting.options /\ stdin = Typed(setting)
    /\ emit_prompt = TRUE /\ eof = FALSE /\ cmdline = << >> /\ evaluated = << >> /\ prompts = 0
    /\ at = "options"

\* -p; -v only makes the shell say more; -h and any other end it.
Option ==
    /\ at = "options" /\ options # << >>
    /\ options' = Tail(options)
    /\ emit_prompt' = (emit_prompt /\ Head(options) # "p")
    /\ at' = IF Head(options) \in {"p", "v"} THEN at ELSE "usage"
    /\ UNCHANGED <<setting, stdin, eof, cmdline, evaluated, prompts>>

OptionsDone ==
    /\ at = "options" /\ options = << >> /\ at' = "prompt"
    /\ UNCHANGED <<setting, options, emit_prompt, stdin, eof, cmdline, evaluated, prompts>>

Prompt ==
    /\ at = "prompt" /\ at' = "read"
    /\ prompts' = IF emit_prompt THEN prompts + 1 ELSE prompts
    /\ UNCHANGED <<setting, options, emit_prompt, stdin, eof, cmdline, evaluated>>

\* fgets stops behind a newline, when the buffer is full, or at the end.
Newlines == {k \in 1 .. Len(stdin) : stdin[k] = Newline}
Piece == Min(Newlines \cup {Len(stdin), MAXLINE - 1})
ReadLine ==
    /\ at = "read"
    /\ IF stdin # << >> THEN cmdline' = SubSeq(stdin, 1, Piece) ELSE UNCHANGED cmdline
    /\ stdin' = SubSeq(stdin, Piece + 1, Len(stdin))
    /\ eof' = (Newlines = {} /\ Len(stdin) < MAXLINE - 1)
    /\ at' = IF eof' THEN "end" ELSE "eval"
    /\ UNCHANGED <<setting, options, emit_prompt, evaluated, prompts>>

\* fgets returns NULL with ferror: app_error.
ReadFails ==
    /\ at = "read" /\ at' = "error"
    /\ UNCHANGED <<setting, options, emit_prompt, stdin, eof, cmdline, evaluated, prompts>>

\* Mutant: spaces between arguments are not skipped.
Skipped_None(buf, k) == k

\* buf after the spaces that start at k.
Skipped(buf, k) == Min({p \in k .. Len(buf) : buf[p] # Space} \cup {Len(buf) + 1})

(* parseline: args[k] is what the loop adds to argv when buf points at k.   *)
(* Whatever character ends the line is overwritten by a space.  An argument *)
(* that starts with a quote ends at the next one, if there is one.          *)
parseline(line) ==
    LET buf == ReplaceAt(line, Len(line), Space)
        args[k \in 1 .. Len(buf) + 1] ==
            LET start  == Skipped(buf, k)
                quoted == start <= Len(buf) /\ buf[start] = Quote
                from   == IF quoted THEN start + 1 ELSE start
                delims == {p \in from .. Len(buf) : buf[p] = IF quoted THEN Quote ELSE Space}
            IN  IF delims = {} THEN << >>
                ELSE <<SubSeq(buf, from, Min(delims) - 1)>> \o args[Min(delims) + 1]
        argv == args[1]
        bg   == argv # << >> /\ Last(argv) # << >> /\ Last(argv)[1] = "&"
    IN  [argv |-> IF bg THEN Front(argv) ELSE argv, bg |-> bg \/ argv = << >>]

Eval ==
    /\ at = "eval" /\ at' = "prompt"
    /\ evaluated' = Append(evaluated, parseline(cmdline))
    /\ UNCHANGED <<setting, options, emit_prompt, stdin, eof, cmdline, prompts>>

Next == Option \/ OptionsDone \/ Prompt \/ ReadLine \/ ReadFails \/ Eval
Spec == Init /\ [][Next]_vars

----------------------------------------------------------------------------
\* What the user means by a line: its words, without a last one that starts
\* with an ampersand.
Meant(words) ==
    LET bg == words # << >> /\ Last(words) # << >> /\ Last(words)[1] = "&"
    IN  [argv |-> IF bg THEN Front(words) ELSE words, bg |-> bg \/ words = << >>]

\* Of lines that fit into the buffer each is evaluated once, in order, and means
\* its words, however they are spaced; a last line without its newline is not
\* evaluated.
LinesMeant ==
    LET words == setting.words
        fit == /\ Len(setting.rest) < MAXLINE - 1
               /\ \A k \in 1 .. Len(words) : Len(LineOf(words[k], setting.gaps[k])) < MAXLINE
    IN  fit =>
        /\ evaluated = [k \in 1 .. Len(evaluated) |-> Meant(words[k])]
        /\ at = "end" => Len(evaluated) = Len(words)
=============================================================================
