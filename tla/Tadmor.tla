------------------------------- MODULE Tadmor -------------------------------
(***************************************************************************)
(* The texts of one tadmor command, from what the user typed to what the   *)
(* user sees: the words of a new task become a payload, the payload a      *)
(* task, the task a file, and the file a task again at the next start of   *)
(* erraid; the output of a run becomes a reply, and the reply what tadmor  *)
(* prints.                                                                 *)
(*                                                                         *)
(* Abstractions: a text is a sequence of characters, in which a key of an  *)
(* object, a run of ordinary letters, and the object of the schedule are   *)
(* one character each; there is no white space outside strings, and a text *)
(* has no length (OutputsFit is about the one length that varies).         *)
(***************************************************************************)
EXTENDS Base64, FiniteSets

CONSTANTS
    Characters,  \* what a word may be made of
    Lines,       \* what may be typed after the options: sequences of words
    RawCommands, \* arrays of commands other clients may send
    Outputs,     \* contents of last.stdout
    MaxArgs,     \* ERRAID_MAX_COMMAND_ARGS
    MaxCommands, \* ERRAID_MAX_TASK_COMMANDS
    Limit        \* ERRAID_PIPE_MESSAGE_LIMIT

ASSUME TadmorAssumption ==
    /\ MaxArgs \in Nat /\ MaxCommands \in Nat /\ Limit \in Nat
    /\ "end" \notin Characters \* stands for the end of a text
    /\ Lines \subseteq Seq(Seq(Characters))
    /\ RawCommands \subseteq Seq(Seq(Seq(Characters)))
    /\ Outputs \subseteq Seq(Octets)

(* Characters that the texts treat apart; a control character has a short  *)
(* escape in JSON (Feed) or none (Control).                                *)
Quote == "quote"
Backslash == "backslash"
Newline == "newline"
Feed == "feed"
Control == "control"

(* The word -- that separates commands.                                    *)
Separator == <<"--">>

(* -c, -s and -n; the fourth option is -o.                                 *)
Kind == [c |-> "SIMPLE", s |-> "SEQUENCE", n |-> "ABSTRACT"]
Options == DOMAIN Kind \cup {"o"}

(* The options -m, -H and -w: absent, all given with hexadecimal digits,   *)
(* or some absent or with other characters.                                *)
Schedules == {"null", "masks", "partial"}

VARIABLES
    stage,   \* how far the command has come
    typed,   \* the command line: options, schedule and words
    output,  \* the last output of the task
    text,    \* the payload or reply on its way
    task,    \* the task erraid has
    file,    \* its file
    printed  \* what tadmor has written to its output

vars == <<stage, typed, output, text, task, file, printed>>

NoTask == [type |-> "none", commands |-> <<>>, schedule |-> "null"]
NoFile == [type |-> "none", count |-> 0, body |-> <<>>, schedule |-> "null"]

-----------------------------------------------------------------------------
(* Writing strings and arrays: json_escape_string and build_commands_array *)
(* of tadmor, write_command_line_fd of the storage.  A letter after a      *)
(* backslash stands for the character it names.                            *)

(* Mutant: a backslash is not escaped.                                     *)
JsonEscapesBut ==
    [quote |-> Quote, newline |-> "n", feed |-> "f", control |-> "u"]

JsonEscapes == [quote |-> Quote, backslash |-> Backslash, newline |-> "n",
                feed |-> "f", control |-> "u"]

(* Mutant: a newline is written as it is.                                  *)
FileEscapesBut == [quote |-> Quote, backslash |-> Backslash]

FileEscapes == [quote |-> Quote, backslash |-> Backslash, newline |-> "n"]

WrittenString(word, escapes) ==
    LET Written(c) == IF c \in DOMAIN escapes
                      THEN <<Backslash, escapes[c]>> ELSE <<c>>
    IN  <<Quote>> \o FlattenSeq([i \in DOMAIN word |-> Written(word[i])])
        \o <<Quote>>

WrittenArray(items) ==
    <<"[">>
    \o FlattenSeq([i \in DOMAIN items |->
                      IF i = 1 THEN items[i] ELSE <<",">> \o items[i]])
    \o <<"]">>

WrittenCommand(command, escapes) ==
    WrittenArray([i \in DOMAIN command |-> WrittenString(command[i], escapes)])

-----------------------------------------------------------------------------
(* Reading them: parse_json_string_token and parse_commands_array of the   *)
(* daemon, parse_json_string and parse_command_line of the storage.  Each  *)
(* gives what was read and the place after it, or no place on an error.    *)

Error == [value |-> <<>>, next |-> 0]
Read(value, next) == [value |-> value, next |-> next]
After(first, rest) ==
    IF rest.next = 0 THEN Error ELSE Read(<<first>> \o rest.value, rest.next)

At(t, i) == IF i \in DOMAIN t THEN t[i] ELSE "end"

(* The letters a reader knows after a backslash.                           *)
JsonLetters ==
    [quote |-> Quote, backslash |-> Backslash, n |-> Newline, f |-> Feed]
FileLetters == [quote |-> Quote, backslash |-> Backslash, n |-> Newline]

(* A string from the place after its first quote.                          *)
ReadString(t, letters, from) ==
    LET string[i \in 1..(Len(t) + 2)] ==
            CASE At(t, i) = "end" -> Error
              [] At(t, i) = Quote -> Read(<<>>, i + 1)
              [] At(t, i) = Backslash ->
                     IF At(t, i + 1) \in DOMAIN letters
                     THEN After(letters[t[i + 1]], string[i + 2])
                     ELSE Error
              [] OTHER -> After(t[i], string[i + 1])
    IN  string[from]

(* A command from the place after its bracket.  In the daemon a bracket    *)
(* after an element closes the array; the storage reads past it and wants  *)
(* another element or bracket (`closes` FALSE).                            *)
ReadCommand(t, letters, closes, from) ==
    LET Word(i) == ReadString(t, letters, i + 1)
        command[i \in 1..(Len(t) + 2)] ==
            CASE At(t, i) = "]" -> Read(<<>>, i + 1)
              [] At(t, i) # "]" /\ (At(t, i) # Quote \/ Word(i).next = 0) -> Error
              [] OTHER ->
                     IF At(t, Word(i).next) = "]" /\ closes
                     THEN Read(<<Word(i).value>>, Word(i).next + 1)
                     ELSE IF At(t, Word(i).next) \in {",", "]"}
                     THEN After(Word(i).value, command[Word(i).next + 1])
                     ELSE Error
    IN  command[from]

(* The array of commands of a request, from the place after its bracket.   *)
ReadCommands(t, from) ==
    LET Command(i) == ReadCommand(t, JsonLetters, TRUE, i + 1)
        commands[i \in 1..(Len(t) + 2)] ==
            CASE At(t, i) = "]" -> Read(<<>>, i + 1)
              [] At(t, i) # "]" /\ (At(t, i) # "[" \/ Command(i).next = 0) -> Error
              [] OTHER ->
                     IF At(t, Command(i).next) = "]"
                     THEN Read(<<Command(i).value>>, Command(i).next + 1)
                     ELSE After(Command(i).value,
                                commands[IF At(t, Command(i).next) = ","
                                         THEN Command(i).next + 1
                                         ELSE Command(i).next])
    IN  commands[from]

(* find_field_pointer: the place of the value after the first key of that  *)
(* name, wherever it stands, or 0.                                         *)
Field(t, key) ==
    LET places == {i \in DOMAIN t : /\ At(t, i) = Quote /\ At(t, i + 1) = key
                                    /\ At(t, i + 2) = Quote}
        first == CHOOSE i \in places : \A j \in places : i <= j
    IN  IF places = {} \/ At(t, first + 3) # ":" THEN 0 ELSE first + 4

-----------------------------------------------------------------------------
(* tadmor: tadmor_parse_args, build_request_payload.                       *)

(* Reading a list piece by piece: the pieces that are done, and what has   *)
(* been read of the current one.                                           *)
NoPiece == [done |-> <<>>, current |-> <<>>]
More(acc, x) == [acc EXCEPT !.current = Append(@, x)]
Ended(acc) == [done |-> Append(acc.done, acc.current), current |-> <<>>]

(* The words between separators, without the empty commands.               *)
Split(words) ==
    LET Cut(acc) == IF acc.current = <<>> THEN acc ELSE Ended(acc)
        taken[n \in 0..Len(words)] ==
            CASE n = 0 -> NoPiece
              [] n # 0 /\ words[n] # Separator -> More(taken[n - 1], words[n])
              [] OTHER -> Cut(taken[n - 1])
    IN  Cut(taken[Len(words)]).done

(* The options and commands tadmor accepts.                                *)
Accepted(options, schedule, words) ==
    LET commands == Split(words) IN
    /\ Cardinality(options) = 1
    /\ options = {"o"} => words = <<>>
    /\ options # {"o"} =>
           /\ commands # <<>>
           /\ \A i \in DOMAIN commands : Len(commands[i]) \in 1..MaxArgs
    /\ options = {"c"} => Len(commands) = 1
    /\ options \in {{"c"}, {"s"}} => schedule # "null"

Payload(commands, schedule) ==
    <<"{", Quote, "commands", Quote, ":">>
    \o WrittenArray([i \in DOMAIN commands |->
                        WrittenCommand(commands[i], JsonEscapes)])
    \o <<",", Quote, "schedule", Quote, ":", schedule, "}">>

Send ==
    /\ stage = "typed"
    /\ \/ /\ ~Accepted(typed.options, typed.schedule, typed.words)
          /\ stage' = "rejected"
          /\ UNCHANGED text
       \/ /\ Accepted(typed.options, typed.schedule, typed.words)
          /\ stage' = "sent"
          /\ text' = IF typed.options = {"o"} THEN <<>>
                     ELSE Payload(Split(typed.words), typed.schedule)
    /\ UNCHANGED <<typed, output, task, file, printed>>

(* Another program that follows the protocol sends any commands.           *)
SendRaw ==
    /\ stage = "typed" /\ typed.words = <<>>
    /\ Cardinality(typed.options) = 1 /\ typed.options # {"o"}
    /\ \E commands \in RawCommands :
           text' = Payload(commands, typed.schedule)
    /\ stage' = "sent"
    /\ UNCHANGED <<typed, output, task, file, printed>>

-----------------------------------------------------------------------------
(* The daemon: handle_create_task.                                         *)

(* parse_schedule_field; masks that are not all there are zero, and never  *)
(* select a minute.                                                        *)
ReadSchedule(t, type) ==
    LET value == Field(t, "schedule") IN
    CASE value = 0 \/ At(t, value) = "null" ->
             IF type = "ABSTRACT" THEN "null" ELSE "invalid"
      [] OTHER -> At(t, value)

(* Mutant: one more command is taken than the limit.                       *)
ValidMore(type, commands) ==
    /\ commands.next # 0
    /\ Len(commands.value) <= MaxCommands + 1
    /\ \A i \in DOMAIN commands.value : Len(commands.value[i]) <= MaxArgs
    /\ type = "SIMPLE" => Len(commands.value) = 1
    /\ type = "SEQUENCE" => commands.value # <<>>

(* parse_commands_field                                                    *)
Valid(type, commands) ==
    /\ commands.next # 0
    /\ Len(commands.value) <= MaxCommands
    /\ \A i \in DOMAIN commands.value : Len(commands.value[i]) <= MaxArgs
    /\ type = "SIMPLE" => Len(commands.value) = 1
    /\ type = "SEQUENCE" => commands.value # <<>>

(* write_task_file                                                         *)
WrittenFile(new) ==
    [type |-> new.type, count |-> Len(new.commands), schedule |-> new.schedule,
     body |-> FlattenSeq([i \in DOMAIN new.commands |->
                 Append(WrittenCommand(new.commands[i], FileEscapes), Newline)])]

Create ==
    /\ stage = "sent" /\ typed.options # {"o"}
    /\ LET type     == Kind[CHOOSE o \in typed.options : TRUE]
           schedule == ReadSchedule(text, type)
           commands == ReadCommands(text, Field(text, "commands") + 1)
           new      == [type |-> type, commands |-> commands.value,
                        schedule |-> schedule]
       IN  \/ /\ schedule = "invalid" \/ ~Valid(type, commands)
              /\ stage' = "refused"
              /\ UNCHANGED <<task, file>>
           \/ /\ schedule # "invalid" /\ Valid(type, commands)
              /\ stage' = "created"
              /\ task' = new
              /\ file' = WrittenFile(new)
    /\ UNCHANGED <<typed, output, text, printed>>

-----------------------------------------------------------------------------
(* The next start: storage_load_tasks, parse_task_file.                    *)

(* The lines of a text, each with the newline that ends it cut off.        *)
FileLines(t) ==
    LET taken[n \in 0..Len(t)] ==
            CASE n = 0 -> NoPiece
              [] n # 0 /\ t[n] = Newline -> Ended(taken[n - 1])
              [] OTHER -> More(taken[n - 1], t[n])
    IN  taken[Len(t)].done

(* parse_command_line: the array is the whole line.                        *)
ReadLine(line) ==
    LET command == ReadCommand(line, FileLetters, FALSE, 2)
    IN  IF At(line, 1) = "[" /\ command.next = Len(line) + 1
        THEN command ELSE Error

(* Mutant: a file of eight lines, without a command, is too short.         *)
LoadableSome(f) ==
    LET lines == FileLines(f.body) IN
    /\ Len(lines) = f.count /\ f.count >= 1
    /\ \A i \in DOMAIN lines : ReadLine(lines[i]).next # 0

(* A line of the schedule is no command, and a command no line of the      *)
(* schedule: the count must be that of the lines.                          *)
Loadable(f) ==
    LET lines == FileLines(f.body) IN
    /\ Len(lines) = f.count
    /\ \A i \in DOMAIN lines : ReadLine(lines[i]).next # 0

Load ==
    /\ stage = "created"
    /\ \/ /\ ~Loadable(file)
          /\ stage' = "unreadable"
          /\ task' = NoTask
       \/ /\ Loadable(file)
          /\ stage' = "loaded"
          /\ LET lines == FileLines(file.body) IN
             task' = [type |-> file.type, schedule |-> file.schedule,
                      commands |-> [i \in DOMAIN lines |->
                                       ReadLine(lines[i]).value]]
    /\ UNCHANGED <<typed, output, text, file, printed>>

-----------------------------------------------------------------------------
(* An output: respond_stdio, tadmor_handle_reply.                          *)

(* The text of a reply after `"stdout":"`, as in Base64.                   *)
EndQuote == 65
EndBrace == 66

Header == 12 \* octets of a header
Frame == 27  \* octets of a payload around the text of an output

(* Mutant: the limit is taken for the output, not for its text.            *)
FitsPlain(octets) == Len(octets) + 64 < Limit

(* The condition respond_stdio tests.                                      *)
Fits(octets) == EncodedLength(Len(octets)) + 64 < Limit

(* utils_base64_encode, buffer_append and proto_pack, which test too.      *)
Sendable(octets) ==
    /\ EncodedLength(Len(octets)) + 1 <= Limit
    /\ Frame + EncodedLength(Len(octets)) + 1 <= Limit
    /\ Header + Frame + EncodedLength(Len(octets)) <= Limit

Answer ==
    /\ stage = "sent" /\ typed.options = {"o"}
    /\ \/ /\ ~Fits(output)
          /\ stage' = "too_long"
          /\ UNCHANGED text
       \/ /\ Fits(output)
          /\ stage' = IF Sendable(output) THEN "answered" ELSE "failed"
          /\ text' = Encode(output) \o <<EndQuote, EndBrace>>
    /\ UNCHANGED <<typed, output, task, file, printed>>

(* The first quote of a text from a place, or 0.                           *)
QuoteFrom(t, i) ==
    LET places == {j \in DOMAIN t : i <= j /\ t[j] = EndQuote}
    IN  IF places = {} THEN 0
        ELSE CHOOSE j \in places : \A k \in places : j <= k

(* decode_base64_field: the text is searched for a quote from the place    *)
(* after the one that opens the string, and the output from there on.  On  *)
(* an error nothing is printed, and tadmor succeeds all the same.          *)
HandleReply ==
    /\ stage = "answered"
    /\ stage' = "printed"
    /\ LET open  == QuoteFrom(text, 1)
           close == QuoteFrom(text, open + 1)
           rest  == SubSeq(text, open + 1, Len(text))
       IN  printed' = IF open # 0 /\ close # 0
                         /\ Decodable(rest, close - open - 1)
                      THEN Decode(rest) ELSE <<>>
    /\ UNCHANGED <<typed, output, text, task, file>>

-----------------------------------------------------------------------------
Init ==
    /\ stage = "typed"
    /\ typed \in [options : {o \in SUBSET Options : Cardinality(o) \in 1..2},
                  schedule : Schedules, words : Lines]
    /\ output \in IF typed.options = {"o"} /\ typed.words = <<>>
                  THEN Outputs ELSE {<<>>}
    /\ text = <<>> /\ task = NoTask /\ file = NoFile /\ printed = <<>>

Next == Send \/ SendRaw \/ Create \/ Load \/ Answer \/ HandleReply

Spec == Init /\ [][Next]_vars

-----------------------------------------------------------------------------
(* A word that, between its quotes, ends with the quoted name of the field *)
(* erraid looks for: the schedule is then searched after that word.        *)
NamesField(word) ==
    LET text_of == WrittenString(word, JsonEscapes)
    IN  \E i \in 1..(Len(text_of) - 2) :
            SubSeq(text_of, i, i + 2) = <<Quote, "schedule", Quote>>

FromWords == typed.words # <<>> /\ typed.options # {"o"}
Words ==
    FlattenSeq([i \in DOMAIN typed.words |->
        IF typed.words[i] = Separator THEN <<>> ELSE <<typed.words[i]>>])

(* README.md:44-56: the task erraid creates is the one that was typed.     *)
(* Every word, whatever it contains, is an argument of the command it was  *)
(* typed in, and the schedule is the one given, unless a word of an        *)
(* abstract task has the name of the field and hides it.                   *)
CreatedAsTyped ==
    stage = "created" /\ FromWords =>
        /\ FlattenSeq(task.commands) = Words
        /\ Len(task.commands) =
               Cardinality({i \in DOMAIN typed.words :
                   /\ typed.words[i] # Separator
                   /\ i = 1 \/ typed.words[i - 1] = Separator})
        /\ task.schedule # typed.schedule =>
               /\ task.type = "ABSTRACT" /\ task.schedule = "null"
               /\ \E i \in DOMAIN Words : NamesField(Words[i])

(* What tadmor accepts erraid refuses for one of three causes only: a      *)
(* character without a short escape, too many commands, and, in a task     *)
(* that needs a schedule, a word with the name of the field.  With any of  *)
(* them it always does, and no task exceeds the limits, whoever sent it.   *)
RefusedForCause ==
    /\ Len(task.commands) <= MaxCommands
    /\ \A i \in DOMAIN task.commands : Len(task.commands[i]) <= MaxArgs
    /\ FromWords =>
        LET unreadable == \E i \in DOMAIN Words :
                              \E k \in DOMAIN Words[i] : Words[i][k] = Control
            many   == Len(Split(typed.words)) > MaxCommands
            hidden == /\ typed.options # {"n"}
                      /\ \E i \in DOMAIN Words : NamesField(Words[i])
        IN  /\ stage = "refused" => unreadable \/ many \/ hidden
            /\ stage = "created" => ~(unreadable \/ many \/ hidden)

(* serialisation.md:19: the file has a line for each command, and the line *)
(* is the array of the command, which the parser of requests reads back.   *)
FileIsRight ==
    stage = "created" =>
        LET lines == FileLines(file.body) IN
        /\ Len(lines) = Len(task.commands)
        /\ \A i \in DOMAIN lines :
               ReadCommand(lines[i], JsonLetters, TRUE, 2) =
                   Read(task.commands[i], Len(lines[i]) + 1)

(* The task files of commands without arguments are read back as they were *)
(* written, and no others: what Erraid takes for granted of a start.       *)
ReadBackUnlessArgs ==
    stage \in {"loaded", "unreadable"} =>
        LET commands == ReadCommands(text, Field(text, "commands") + 1).value IN
        IF \A i \in DOMAIN commands : commands[i] = <<>>
        THEN stage = "loaded" /\ task.commands = commands
        ELSE stage = "unreadable"

(* An output that respond_stdio takes also fits in the buffers it is then  *)
(* written to, and in a message: it is refused at once or not at all.      *)
OutputFits == stage # "failed"

(* The reply carries the output, whatever its octets and its length.       *)
ReplyCarriesOutput ==
    stage = "answered" =>
        LET value == SubSeq(text, 1, Len(text) - 2) IN
        Decodable(value, Len(value)) /\ Decode(value) = output

(* ARCHITECTURE.md:47 and 68, "charge toutes les taches depuis             *)
(* RUN_DIRECTORY/tasks au demarrage": the file of a task that was created  *)
(* can be loaded.                                                          *)
FilesReadBack == stage # "unreadable"

(* README.md:70-71, "recuperer le dernier stdout / stderr": tadmor -o      *)
(* prints the output.                                                      *)
OutputIsPrinted == stage = "printed" => printed = output
=============================================================================
