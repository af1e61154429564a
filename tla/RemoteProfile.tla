---------------------------- MODULE RemoteProfile ----------------------------
(***************************************************************************)
(* The profile of one server (src/core/remote_profile.cpp): its groups,    *)
(* commands and bundles in a file without ids, which can be applied to a   *)
(* server of any Configuration, adding to its workspace (merge) or putting *)
(* it in its place (replace). The tests call it; no handler does so far,   *)
(* so that it has no action here and is checked on every Configuration     *)
(* that the handlers and imports lead to.                                  *)
(***************************************************************************)
EXTENDS ConfigTransfer

-----------------------------------------------------------------------------
(* build_remote_profile, and parse_remote_profile, which reads all of it.   *)

InOrder(cfg, C) == SelectSeq(cfg.order, LAMBDA c : c \in C)

Profile(cfg, s) ==
  LET groups   == Ascending(GroupsFor(cfg, s))
      commands == InOrder(cfg, CommandsFor(cfg, s))
      steps(b) == SelectSeq(cfg.bundles[b].steps, LAMBDA c : c \in CommandsFor(cfg, s))
      bundles  == Ascending({b \in BundlesFor(cfg, s) : steps(b) # <<>>})
      named(c) == [group |-> GroupName(cfg, c), name |-> cfg.commands[c].name]
  IN [groups   |-> [i \in DOMAIN groups |-> cfg.groups[groups[i]].name],
      commands |-> [i \in DOMAIN commands |-> named(commands[i])],
      bundles  |-> [i \in DOMAIN bundles |->
                      [name  |-> cfg.bundles[bundles[i]].name,
                       steps |-> LET ids == steps(bundles[i]) IN [k \in DOMAIN ids |-> named(ids[k])]]]]

-----------------------------------------------------------------------------
(* apply_remote_profile; ConfigTransfer has ensure_group.                   *)

\* ordered_groups: those of the profile, then those its commands name, each once.
OrderedGroups(profile) ==
  LET ofCommands == SelectSeq([i \in DOMAIN profile.commands |-> profile.commands[i].group],
                              LAMBDA n : n # NoName)
      Add(names, n) == IF \E i \in DOMAIN names : Same(names[i], n) THEN names ELSE Append(names, n)
  IN FoldLeft(Add, <<>>, profile.groups \o ofCommands)

\* drop_server_workspace
DropWorkspace(cfg, s) ==
  LET C == CommandsFor(cfg, s) IN
  [cfg EXCEPT !.bundles = Without(@, BundlesFor(cfg, s)), !.commands = Without(@, C),
              !.order = SelectSeq(@, LAMBDA c : c \notin C),
              !.groups = Without(@, GroupsFor(cfg, s)), !.last_group = Without(@, {s})]

\* command_exists: in the same list.
CommandExists(cfg, s, g, n) == \E c \in InList(cfg, s, g) : Same(cfg.commands[c].name, n)

ApplyCommand(to, s, item, replace) ==
  LET t   == EnsureGroup(to, s, item.group)
      g   == GroupNamed(t.config, s, item.group)
      new == New(t, "commands", [server |-> s, group |-> g, name |-> item.name])
  IN IF ~replace /\ CommandExists(t.config, s, g, item.name) THEN t
     ELSE [new EXCEPT !.config.order = Append(@, new.issued)]

\* Mutant: the first command of that name, in whatever group.
FindCommandByName(cfg, s, g, n) ==
  FirstInOrder(cfg, {c \in CommandsFor(cfg, s) : Same(cfg.commands[c].name, n)})

\* find_command: in the list, or else the first of the server.
FindCommand(cfg, s, g, n) ==
  LET named(C) == {c \in C : Same(cfg.commands[c].name, n)}
      exact    == FirstInOrder(cfg, named(InList(cfg, s, g)))
  IN IF exact # NoId THEN exact ELSE FirstInOrder(cfg, named(CommandsFor(cfg, s)))

\* u is what it has come to, with the names of the bundles that count as there.
ApplyBundle(u, s, item, replace) ==
  LET t   == FoldLeft(LAMBDA v, step : EnsureGroup(v, s, step.group), u.to, item.steps)
      Id(step) == FindCommand(t.config, s, GroupNamed(t.config, s, step.group), step.name)
      ids == SelectSeq([k \in DOMAIN item.steps |-> Id(item.steps[k])], LAMBDA c : c # NoId)
  IN IF ~replace /\ LowerName[item.name] \in u.there THEN u
     ELSE IF ids = <<>> THEN [u EXCEPT !.to = t]
     ELSE [to    |-> New(t, "bundles", [server |-> s, name |-> item.name, steps |-> ids]),
           there |-> u.there \cup {LowerName[item.name]}]

\* n ids have been issued before.
ApplyProfile(cfg, n, s, profile, replace) ==
  LET start    == [config |-> IF replace THEN DropWorkspace(cfg, s) ELSE cfg, issued |-> n]
      groups   == FoldLeft(LAMBDA t, name : EnsureGroup(t, s, name), start, OrderedGroups(profile))
      commands == FoldLeft(LAMBDA t, item : ApplyCommand(t, s, item, replace), groups, profile.commands)
      there    == IF replace THEN {}
                  ELSE {LowerName[cfg.bundles[b].name] : b \in BundlesFor(cfg, s)}
  IN FoldLeft(LAMBDA u, item : ApplyBundle(u, s, item, replace),
              [to |-> commands, there |-> there], profile.bundles).to

-----------------------------------------------------------------------------
(* Properties                                                               *)

\* Taking the profile of another server over a second time adds nothing, however the
\* names of groups and commands repeat and differ in case (apply_remote_profile, merge:
\* command_exists, existing_bundles, ensure_group).
ProfileMergeTwice ==
  \A s, p \in DOMAIN config.servers :
    LET once == ApplyProfile(config, issued, s, Profile(config, p), FALSE)
    IN ApplyProfile(once.config, once.issued, s, Profile(config, p), FALSE) = once

\* What belongs to other servers.
OthersOf(cfg, s) ==
  [groups |-> Without(cfg.groups, GroupsFor(cfg, s)), commands |-> Without(cfg.commands, CommandsFor(cfg, s)),
   order  |-> SelectSeq(cfg.order, LAMBDA c : c \notin CommandsFor(cfg, s)),
   bundles |-> Without(cfg.bundles, BundlesFor(cfg, s)), servers |-> cfg.servers]

\* Which of the commands of server s the steps of its bundles are, by their places.
WorkspaceSteps(cfg, s) ==
  LET commands == InOrder(cfg, CommandsFor(cfg, s))
      bundles  == Ascending(BundlesFor(cfg, s))
      place(c) == Min({i \in DOMAIN commands : commands[i] = c})
  IN [i \in DOMAIN bundles |-> LET steps == cfg.bundles[bundles[i]].steps IN [k \in DOMAIN steps |-> place(steps[k])]]

\* A second merge adds nothing. Replacing the workspace of a server by its own profile gives
\* it back, with new ids and with the same commands in its bundles, whenever names tell them
\* apart; every reference holds and nothing of another server changes
\* (drop_server_workspace, find_command).
ProfileRestores ==
  /\ ProfileMergeTwice
  /\ Exportable(config) => \A s \in DOMAIN config.servers :
      LET back == ApplyProfile(config, issued, s, Profile(config, s), TRUE).config
      IN /\ Profile(back, s) = Profile(config, s)
         /\ WorkspaceSteps(back, s) = WorkspaceSteps(config, s)
         /\ OthersOf(back, s) = OthersOf(config, s)
         /\ References(back)
=============================================================================
