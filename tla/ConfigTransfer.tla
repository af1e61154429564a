--------------------------- MODULE ConfigTransfer ---------------------------
(***************************************************************************)
(* Export and import of a Configuration (src/core/config_io.cpp): a file   *)
(* without ids, in which servers are told apart by name and host, groups,  *)
(* commands and bundles by name within their server. An import adds it to  *)
(* the configuration (merge) or puts it in its place (replace).            *)
(***************************************************************************)
EXTENDS Configuration, FiniteSetsExt

CONSTANT ImportFiles    \* the exports that the user imports

NoName == ""            \* the group of a command under the tab "Общее"

\* The dialogs trim a name and refuse an empty one.
ASSUME NameAssumption == NoName \notin Names

\* What is read of a file leaves out all that lacks a name, or the name or host of its server.
FileServer == [name : DOMAIN LowerName, host : Hosts]
FileStep   == [group : {NoName} \cup DOMAIN LowerName, name : DOMAIN LowerName]

ASSUME ImportAssumption ==
  ImportFiles \subseteq
    [servers  : Seq(FileServer),
     groups   : Seq([server : FileServer, name : DOMAIN LowerName]),
     commands : Seq([server : FileServer, group : {NoName} \cup DOMAIN LowerName, name : DOMAIN LowerName]),
     bundles  : Seq([server : FileServer, name : DOMAIN LowerName, steps : Seq(FileStep)])]

-----------------------------------------------------------------------------
(* build_export_payload                                                     *)

\* A loop over a vector whose places are the ids
Ascending(S)     == Among([i \in 1 .. Max({0} \cup S) |-> i], S)
GroupName(cfg, c) == LET g == cfg.commands[c].group IN IF g \in DOMAIN cfg.groups THEN cfg.groups[g].name ELSE NoName

Export(cfg) ==
  LET owned(f)  == {x \in DOMAIN f : f[x].server \in DOMAIN cfg.servers}
      steps(b)  == Among(cfg.bundles[b].steps, DOMAIN cfg.commands)
      servers   == Ascending(DOMAIN cfg.servers)
      groups    == Ascending(owned(cfg.groups))
      commands  == Among(cfg.order, owned(cfg.commands))
      bundles   == Ascending({b \in owned(cfg.bundles) : steps(b) # <<>>})
      server(f, x) == cfg.servers[f[x].server]
  IN [servers  |-> [i \in DOMAIN servers |-> cfg.servers[servers[i]]],
      groups   |-> [i \in DOMAIN groups |-> [server |-> server(cfg.groups, groups[i]),
                                             name   |-> cfg.groups[groups[i]].name]],
      commands |-> [i \in DOMAIN commands |-> [server |-> server(cfg.commands, commands[i]),
                                               group  |-> GroupName(cfg, commands[i]),
                                               name   |-> cfg.commands[commands[i]].name]],
      bundles  |-> [i \in DOMAIN bundles |->
                      [server |-> server(cfg.bundles, bundles[i]),
                       name   |-> cfg.bundles[bundles[i]].name,
                       steps  |-> LET ids == steps(bundles[i])
                                  IN [k \in DOMAIN ids |-> [group |-> GroupName(cfg, ids[k]),
                                                            name  |-> cfg.commands[ids[k]].name]]]]]

-----------------------------------------------------------------------------
(* import_into_config: to is the configuration it has come to, with the ids *)
(* issued for it                                                            *)

Key(server)   == <<LowerName[server.name], server.host>>
Same(n, m)    == LowerName[n] = LowerName[m]
LastOf(S)     == IF S = {} THEN NoId ELSE Max(S)
FirstOf(S)    == IF S = {} THEN NoId ELSE Min(S)

\* id_by_key: of servers with one key the last one counts
ServerAt(cfg, server) == LastOf({s \in DOMAIN cfg.servers : Key(cfg.servers[s]) = Key(server)})

New(to, part, item) ==
  [config |-> [to.config EXCEPT ![part] = Put(@, to.issued + 1, item)], issued |-> to.issued + 1]

\* ensure_group: the first group of that name, or a new one
GroupNamed(cfg, s, n) ==
  IF n = NoName THEN NoId ELSE FirstOf({g \in GroupsFor(cfg, s) : Same(cfg.groups[g].name, n)})

\* Mutant: does not look for the group first.
EnsureGroupNew(to, s, n) ==
  IF n = NoName THEN to ELSE New(to, "groups", [server |-> s, name |-> n])

EnsureGroup(to, s, n) ==
  IF n = NoName \/ GroupNamed(to.config, s, n) # NoId THEN to
  ELSE New(to, "groups", [server |-> s, name |-> n])

AddServers(to, servers, skip) ==
  FoldLeft(LAMBDA t, server : IF skip /\ ServerAt(t.config, server) # NoId THEN t ELSE New(t, "servers", server),
           to, servers)

AddGroups(to, groups) ==
  FoldLeft(LAMBDA t, g : LET s == ServerAt(t.config, g.server) IN IF s = NoId THEN t ELSE EnsureGroup(t, s, g.name),
           to, groups)

\* A command is skipped when its server has one of that name, in whatever group.
AddCommand1(to, cmd, skip) ==
  LET s == ServerAt(to.config, cmd.server)
      has == \E c \in CommandsFor(to.config, s) : Same(to.config.commands[c].name, cmd.name)
      t == EnsureGroup(to, s, cmd.group)
      new == New(t, "commands", [server |-> s, group |-> GroupNamed(t.config, s, cmd.group), name |-> cmd.name])
  IN  IF s = NoId \/ (skip /\ has) THEN to ELSE [new EXCEPT !.config.order = Append(@, new.issued)]

AddCommands(to, cmds, skip) == FoldLeft(LAMBDA t, cmd : AddCommand1(t, cmd, skip), to, cmds)

\* resolve_bundle_steps: by group and name, or else by name alone
FirstInOrder(cfg, C) == LET at == {i \in DOMAIN cfg.order : cfg.order[i] \in C} IN IF at = {} THEN NoId ELSE cfg.order[Min(at)]

\* Mutant: the group of the step is not considered.
StepByName(cfg, s, step) ==
  FirstInOrder(cfg, {c \in CommandsFor(cfg, s) : Same(cfg.commands[c].name, step.name)})

StepOf(cfg, s, step) ==
  LET named(C) == {c \in C : Same(cfg.commands[c].name, step.name)}
      exact    == FirstInOrder(cfg, named(InList(cfg, s, GroupNamed(cfg, s, step.group))))
  IN  IF exact # NoId THEN exact ELSE FirstInOrder(cfg, named(CommandsFor(cfg, s)))

EnsureGroups(to, s, steps) == FoldLeft(LAMBDA t, step : EnsureGroup(t, s, step.group), to, steps)

\* Mutant: existing bundles are not skipped.
AddBundleAgain(to, bundle, skip) ==
  LET s   == ServerAt(to.config, bundle.server)
      t   == EnsureGroups(to, s, bundle.steps)
      ids == Among([k \in DOMAIN bundle.steps |-> StepOf(t.config, s, bundle.steps[k])], Nat \ {NoId})
  IN  IF s = NoId THEN to
      ELSE IF ids = <<>> THEN t
      ELSE New(t, "bundles", [server |-> s, name |-> bundle.name, steps |-> ids])

AddBundle1(to, bundle, skip) ==
  LET s   == ServerAt(to.config, bundle.server)
      has == \E b \in BundlesFor(to.config, s) : Same(to.config.bundles[b].name, bundle.name)
      t   == EnsureGroups(to, s, bundle.steps)
      ids == Among([k \in DOMAIN bundle.steps |-> StepOf(t.config, s, bundle.steps[k])], Nat \ {NoId})
  IN  IF s = NoId \/ (skip /\ has) THEN to
      ELSE IF ids = <<>> THEN t
      ELSE New(t, "bundles", [server |-> s, name |-> bundle.name, steps |-> ids])

AddBundles(to, bundles, skip) == FoldLeft(LAMBDA t, b : AddBundle1(t, b, skip), to, bundles)

Imported(to, data, skip) ==
  AddBundles(AddCommands(AddGroups(AddServers(to, data.servers, skip), data.groups), data.commands, skip),
             data.bundles, skip)

Merge(cfg, n, data) == Imported([config |-> cfg, issued |-> n], data, TRUE)

Cleared(cfg) ==
  [cfg EXCEPT !.servers = <<>>, !.groups = <<>>, !.commands = <<>>, !.order = <<>>, !.bundles = <<>>]

Replace(cfg, n, data) == Imported([config |-> Cleared(cfg), issued |-> n], data, FALSE)

-----------------------------------------------------------------------------
(* The handlers of the import                                               *)

\* The server that has by now the index of the selected row, if any.
InRow(cfg) ==
  LET place(s, S) == Cardinality({t \in S : t <= s})
      all == DOMAIN cfg.servers
  IN  FirstOf({s \in all : shown # NoId /\ place(s, all) = place(shown, DOMAIN config.servers)})

\* From the menu: persist finds the selected row and the shown tab of before.
ImportFromMenu(to) ==
  LET s == InRow(to.config) IN
  /\ Persist(to.config, s, tab)
  /\ RefreshServers(IF s # NoId THEN s ELSE config.last_server)

\* From the settings: apply_ui_theme has refreshed the lists when persist is called.
ImportFromSettings(to) ==
  LET s == InRow(to.config) IN
  \E r \in Row(to.config, IF s # NoId THEN s ELSE config.last_server) :
    Persist(to.config, r, TabOf(to.config, r)) /\ RefreshServers(r)

Import(to) ==
  /\ handled < MaxHandled /\ handled' = handled + 1
  /\ issued' = to.issued
  /\ ImportFromMenu(to) \/ ImportFromSettings(to)

ImportMerge   == \E data \in ImportFiles : Import(Merge(config, issued, data))
ImportReplace == \E data \in ImportFiles : Import(Replace(config, issued, data))

TransferNext == Next \/ ImportMerge \/ ImportReplace
TransferSpec == Init /\ [][TransferNext]_vars

-----------------------------------------------------------------------------
(* Properties                                                               *)

\* Adding a file a second time changes nothing: what the first time has added or
\* skipped is all found there.
MergeTwice ==
  \A data \in ImportFiles :
    LET once == Merge(config, issued, data) IN Merge(once.config, once.issued, data) = once

UniqueKeys(cfg) ==
  \A s, t \in DOMAIN cfg.servers : Key(cfg.servers[s]) = Key(cfg.servers[t]) => s = t

\* Adding what has just been exported changes nothing, whatever the names of groups,
\* commands and bundles, as long as no two servers have the same name and host.
OwnExportAddsNothing ==
  UniqueKeys(config) => Merge(config, issued, Export(config)).config = config

\* No two servers, groups of a server and commands of a list have one name, and the
\* bundles have steps, on their own server: all that an export can tell apart.
Exportable(cfg) ==
  /\ UniqueKeys(cfg) /\ StepsLocal(cfg)
  /\ \A g, h \in DOMAIN cfg.groups :
       (cfg.groups[g].server = cfg.groups[h].server /\ Same(cfg.groups[g].name, cfg.groups[h].name)) => g = h
  /\ \A c, d \in DOMAIN cfg.commands :
       (SameList(cfg, c, d) /\ Same(cfg.commands[c].name, cfg.commands[d].name)) => c = d
  /\ \A b \in DOMAIN cfg.bundles : cfg.bundles[b].steps # <<>>

\* What the steps of the bundles are: places in the vector of commands.
StepPlaces(cfg) ==
  LET bundles == Ascending(DOMAIN cfg.bundles)
      place(c) == Min({i \in DOMAIN cfg.order : cfg.order[i] = c})
  IN  [i \in DOMAIN bundles |-> LET steps == cfg.bundles[bundles[i]].steps IN [k \in DOMAIN steps |-> place(steps[k])]]

\* An export read back with "replace all" is the same configuration with new ids:
\* servers, groups, commands, their order, bundles and the commands they run.
ReplaceRestores ==
  Exportable(config) =>
    LET back == Replace(config, issued, Export(config)).config
    IN  Export(back) = Export(config) /\ StepPlaces(back) = StepPlaces(config)
=============================================================================
