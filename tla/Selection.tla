------------------------------- MODULE Selection -------------------------------
(***************************************************************************)
(* Which collectors a collection runs (pkg/collectors/registry.go,         *)
(* pkg/runner/collector_selector.go, and the check of the arguments in     *)
(* pkg/cmd/collect.go).                                                    *)
(*                                                                         *)
(* A name given on the command line is [word, exact]: what it is when case *)
(* is ignored, and whether it is spelled as the registry spells it.        *)
(***************************************************************************)
EXTENDS Naturals, SequencesExt

\* CollectorRegistry.register, in the order the packages are initialised.
Register(registry, name, inclusion) ==
  [registry EXCEPT ![inclusion] = Append(@, name)]

\* What the collectors register; only DevInfo is required.
Registry ==
  LET empty == [required |-> <<>>, optional |-> <<>>]
      Optional(registry, name) == Register(registry, name, "optional")
  IN  FoldLeft(Optional, Register(empty, "DevInfo", "required"),
               <<"DPLL", "GNSS", "Logs", "PMC">>)

RequiredCollectorNames == Registry.required
OptionalCollectorNames == Registry.optional

\* isIn compares exactly.
isIn(name, names) == name.exact /\ Contains(names, name.word)

\* Faulty variant: duplicates are not looked for.
KeepDuplicates(names) == names

removeDuplicates(names) ==
  LET Add(res, name) == IF Contains(res, name) THEN res ELSE Append(res, name)
  IN  FoldLeft(Add, <<>>, names)

\* One round of the loop: "all" and "defaults" in any case; a name that is
\* in the list already, or is unknown, adds nothing.
AddSelected(names, name) ==
  IF name.word \in {"all", "defaults"} THEN names \o OptionalCollectorNames
  ELSE IF ~isIn(name, names) /\ isIn(name, OptionalCollectorNames)
    THEN Append(names, name.word)
    ELSE names

GetCollectorsToRun(selected) ==
  removeDuplicates(FoldLeft(AddSelected, RequiredCollectorNames, selected))

\* collect.go asks for a file only when the name is spelled Logs or all.
MissingLogsFile(selected, logsOutputFile) ==
  /\ ~logsOutputFile
  /\ \E i \in DOMAIN selected : selected[i].exact /\ selected[i].word \in {"Logs", "all"}

=============================================================================
