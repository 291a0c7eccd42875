------------------------------- MODULE Fetching -------------------------------
(***************************************************************************)
(* Commands that are run together in one shell and the fetcher that takes  *)
(* their outputs apart (pkg/clients/command.go, pkg/fetcher/fetcher.go,    *)
(* builder.go and unmarshal.go).                                           *)
(*                                                                         *)
(* Text is a sequence of tokens: newlines, blanks, words, and the tags     *)
(* <key> and </key> that are echoed around the output of a command.  Go's  *)
(* zero value of a field is Zero.                                          *)
(***************************************************************************)
EXTENDS Naturals, SequencesExt

Newline == <<"newline">>
Blank == <<"blank">>
Word(w) == <<"word", w>>
Open(key) == <<"<", key>>
Close(key) == <<"</", key>>

Zero == [type |-> "zero", data |-> <<>>]

Blanks == {Newline, Blank}

\* strings.TrimSpace
TrimSpace(text) ==
  LET words == {i \in DOMAIN text : text[i] \notin Blanks}
  IN  IF words = {} THEN <<>> ELSE SubSeq(text, Min(words), Max(words))

-----------------------------------------------------------------------------
(* Cmd: a key, and whether an output processor trims what is captured.     *)

\* What the shell prints for echo '<key>'; cmd; echo '</key>'.
Echoed(cmd, printed) ==
  <<Open(cmd.key), Newline>> \o printed \o <<Close(cmd.key), Newline>>

\* CmdGroup.GetCommand, run: printed[i] is the output of the i-th command.
RunAll(cmds, printed) ==
  FlattenSeq([i \in DOMAIN cmds |-> Echoed(cmds[i], printed[i])])

\* Where (?s)<key>\n(.*)\n</key> may begin and end.
Begins(key, s) == {i \in 1..(Len(s) - 1) : s[i] = Open(key) /\ s[i + 1] = Newline}
Ends(key, s) == {j \in 2..Len(s) : s[j] = Close(key) /\ s[j - 1] = Newline}

\* Faulty variant: the regex names no key, any pair of tags will do.
ExtractResultAnyKey(cmd, s) ==
  LET keys == {s[i][2] : i \in {j \in DOMAIN s : s[j][1] = "<"}}
      begins == UNION {Begins(key, s) : key \in keys}
      ends == UNION {Ends(key, s) : key \in keys}
      captured == SubSeq(s, Min(begins) + 2, Max(ends) - 2)
  IN  IF begins = {} \/ ends = {}
        THEN [ok |-> FALSE, value |-> <<>>]
        ELSE [ok |-> TRUE, value |-> IF cmd.trim THEN TrimSpace(captured) ELSE captured]

\* The leftmost match, greedy.  The newline behind <key> and the one in front
\* of </key> are two: a command that prints nothing has no result.
ExtractResult(cmd, s) ==
  LET Matches(i, j) == i + 3 <= j
      begins == {i \in Begins(cmd.key, s) : \E j \in Ends(cmd.key, s) : Matches(i, j)}
      captured == SubSeq(s, Min(begins) + 2, Max(Ends(cmd.key, s)) - 2)
  IN  IF begins = {}
        THEN [ok |-> FALSE, value |-> <<>>]
        ELSE [ok |-> TRUE, value |-> IF cmd.trim THEN TrimSpace(captured) ELSE captured]

Keys(cmds) == {cmds[i].key : i \in DOMAIN cmds}

\* CmdGroup.ExtractResult: every key, or an error.
ExtractAll(cmds, s) ==
  LET Of(key) == cmds[Max({i \in DOMAIN cmds : cmds[i].key = key})]
  IN  IF \A i \in DOMAIN cmds : ExtractResult(cmds[i], s).ok
        THEN [ok |-> TRUE,
              result |-> [key \in Keys(cmds) |-> ExtractResult(Of(key), s).value]]
        ELSE [ok |-> FALSE, result |-> <<>>]

-----------------------------------------------------------------------------
(* Fetcher.  A pack is a function from its tagged fields, in order, to     *)
(* values; a value is [type, data], and a field accepts one type.          *)

\* FetcherFactory: the given commands, then the ones made from arguments.
FetcherFactory(commands, added) == commands \o added

Text(data) == [type |-> "string", data |-> data]

\* runCommands: the stream may fail, the extraction may fail.
runCommands(cmds, run) ==
  IF run.ok THEN ExtractAll(cmds, run.stdout) ELSE [ok |-> FALSE, result |-> <<>>]

\* What the post-processor adds replaces what the commands printed.
Merged(result, updated) ==
  [key \in DOMAIN result \cup DOMAIN updated |->
     IF key \in DOMAIN updated THEN updated[key] ELSE Text(result[key])]

\* unmarshal: the fields in order up to the first value of a wrong type.
\* Fields without a value stay as they are, values without a field are lost.
unmarshal(values, fields, pack) ==
  LET Wrong(i) == /\ fields[i].key \in DOMAIN values
                  /\ values[fields[i].key].type # fields[i].type
      wrong == {i \in DOMAIN fields : Wrong(i)}
      Set(i) == fields[i].key \in DOMAIN values /\ \A j \in wrong : i < j
  IN  [ok |-> wrong = {},
       pack |-> [i \in DOMAIN fields |->
                   IF Set(i) THEN values[fields[i].key] ELSE pack[i]]]

\* Faulty variant: a post-processor that fails leaves the raw values.
FetchDespiteErrors(cmds, run, post, fields, pack) ==
  LET ran == runCommands(cmds, run)
  IN  IF ~ran.ok THEN [ok |-> FALSE, pack |-> pack]
      ELSE unmarshal(Merged(ran.result, post.values), fields, pack)

\* post is the outcome of the post-processor: [ok, values].
Fetch(cmds, run, post, fields, pack) ==
  LET ran == runCommands(cmds, run)
  IN  IF ~ran.ok \/ ~post.ok
        THEN [ok |-> FALSE, pack |-> pack]
        ELSE unmarshal(Merged(ran.result, post.values), fields, pack)

=============================================================================
