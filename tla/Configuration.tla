---------------------------- MODULE Configuration ----------------------------
(***************************************************************************)
(* What the user keeps in FaTTY: servers, groups of commands, commands and *)
(* bundles (struct Config, src/core/store.hpp), edited by the handlers of  *)
(* AppFrame and the dialogs they open, saved in config.json after each of  *)
(* them and loaded when the program starts.                                *)
(*                                                                         *)
(* Every handler runs on the GUI thread up to its end; a dialog it opens   *)
(* disables the windows from which another one could start. A handler is   *)
(* one step, with its save (persist) and the refresh of the lists.         *)
(***************************************************************************)
EXTENDS Integers, Sequences, SequencesExt

CONSTANTS
  Names,        \* names of servers, groups, commands, bundles (trimmed, not empty)
  Hosts,        \* addresses of servers, without regard to case
  LowerName,    \* to_lower, on these names and those of imported files
  Saved,        \* the config.json with which the program starts for the first time
  SavedIds,     \* the ids in it are 1 .. SavedIds
  MaxHandled,   \* bound: handlers that change something
  MaxSteps,     \* bound: steps of a bundle
  MaxPresets,   \* bound: presets chosen at once
  MaxFailures   \* bound: saves that fail

NoId == 0       \* the empty string: no group (the tab "Общее"), nothing selected

\* All vectors but that of the commands grow at their end and are never
\* reordered: ids are issued in increasing order and stand for the places in them.
\* cfg is a Config whose ids are at most n.
IsConfig(cfg, n) ==
  LET ids == 1 .. n IN
  /\ DOMAIN cfg = {"servers", "groups", "commands", "order", "bundles", "last_group", "last_server"}
  /\ \A part \in {"servers", "groups", "commands", "bundles", "last_group"} : DOMAIN cfg[part] \subseteq ids
  /\ cfg.servers \in [DOMAIN cfg.servers -> [name : Names, host : Hosts]]
  /\ cfg.groups \in [DOMAIN cfg.groups -> [server : ids, name : Names]]
  /\ cfg.commands \in [DOMAIN cfg.commands -> [server : ids, group : 0 .. n, name : Names]]
  /\ cfg.order \in Seq(ids)                                        \* the vector of commands
  /\ IsInjective(cfg.order) /\ Range(cfg.order) = DOMAIN cfg.commands
  /\ cfg.bundles \in [DOMAIN cfg.bundles -> [server : ids, name : Names, steps : Seq(ids)]]
  /\ cfg.last_group \in [DOMAIN cfg.last_group -> 0 .. n]           \* last_group_by_server
  /\ cfg.last_server \in 0 .. n                                    \* last_server_id

Put(f, k, v)    == [x \in DOMAIN f \cup {k} |-> IF x = k THEN v ELSE f[x]]
Keep(f, S)      == [x \in S |-> f[x]]
Without(f, S)   == Keep(f, DOMAIN f \ S)
IsFirst(x, S)   == x \in S /\ \A y \in S : x <= y
Following(x, S) == {y \in S : y > x /\ \A z \in S : z > x => y <= z}

\* A loop over s that keeps what is in S, in its order (copy_if, remove_if).
KeptSoFar(s, S) ==
  LET kept[n \in 0 .. Len(s)] ==
        IF n = 0 THEN <<>>
        ELSE IF s[n] \in S THEN Append(kept[n - 1], s[n])
        ELSE kept[n - 1]
  IN kept

Among(s, S)   == KeptSoFar(s, S)[Len(s)]
Besides(s, S) == Among(s, Range(s) \ S)

-----------------------------------------------------------------------------
(* Queries of Config                                                        *)

GroupsFor(cfg, s)   == {g \in DOMAIN cfg.groups : cfg.groups[g].server = s}
CommandsFor(cfg, s) == {c \in DOMAIN cfg.commands : cfg.commands[c].server = s}
BundlesFor(cfg, s)  == {b \in DOMAIN cfg.bundles : cfg.bundles[b].server = s}
InList(cfg, s, g)   == {c \in CommandsFor(cfg, s) : cfg.commands[c].group = g}
NamesOf(f, S)       == {f[x].name : x \in S}

\* The dialogs list servers by name and take the first one with the chosen name.
Chosen(cfg, s) == IsFirst(s, {t \in DOMAIN cfg.servers : cfg.servers[t].name = cfg.servers[s].name})

\* Every reference from one part of a configuration to another one leads to
\* something that exists, and to a group of the same server.
References(cfg) ==
  /\ \A g \in DOMAIN cfg.groups : cfg.groups[g].server \in DOMAIN cfg.servers
  /\ \A c \in DOMAIN cfg.commands :
       /\ cfg.commands[c].server \in DOMAIN cfg.servers
       /\ cfg.commands[c].group \in {NoId} \cup GroupsFor(cfg, cfg.commands[c].server)
  /\ \A b \in DOMAIN cfg.bundles : cfg.bundles[b].server \in DOMAIN cfg.servers

ASSUME ConfigurationAssumption ==
  /\ Names \subseteq DOMAIN LowerName /\ {SavedIds, MaxHandled, MaxSteps, MaxPresets, MaxFailures} \subseteq Nat
  /\ IsConfig(Saved, SavedIds) /\ References(Saved)

VARIABLES
  config,     \* config_ of AppFrame
  file,       \* config.json
  shown,      \* the server whose row is selected
  tab,        \* the group whose tab is shown (current_group_id)
  issued,     \* ids issued so far (new_uuid)
  handled,    \* handlers that changed something so far
  failures    \* saves that failed so far

vars == <<config, file, shown, tab, issued, handled, failures>>

-----------------------------------------------------------------------------
(* Saving and showing                                                       *)

\* persist remembers the selected row and tab before it saves. Rows hold an index
\* into the vector of servers: s is the server that has this index by now.
Remembered(cfg, s, t) ==
  IF s = NoId THEN cfg
  ELSE [cfg EXCEPT !.last_server = s, !.last_group = Put(@, s, t)]

\* save_config: atomic_write_text replaces the whole file or, when it throws, leaves
\* the old one.
SaveConfig(cfg) ==
  \/ file' = cfg /\ UNCHANGED failures
  \/ failures < MaxFailures /\ failures' = failures + 1 /\ UNCHANGED file

\* persist swallows the exception.
Persist(cfg, s, t) == config' = Remembered(cfg, s, t) /\ SaveConfig(config')

TabOf(cfg, s) ==
  IF s \in DOMAIN cfg.last_group /\ cfg.last_group[s] \in GroupsFor(cfg, s)
  THEN cfg.last_group[s] ELSE NoId

\* refresh_servers: the kept server, or else the first one; rebuild_group_tabs.
Row(cfg, keep) ==
  LET all == DOMAIN cfg.servers
  IN  IF keep \in all THEN {keep} ELSE IF all = {} THEN {NoId} ELSE {s \in all : IsFirst(s, all)}

RefreshServers(keep) == shown' \in Row(config', keep) /\ tab' = TabOf(config', shown')
RebuildTabs     == UNCHANGED shown /\ tab' = TabOf(config', shown)
RefreshCommands == UNCHANGED <<shown, tab>>

\* A handler that ends with cfg, while the server of the selected row is still s.
Handler(cfg, s, ids) ==
  /\ handled < MaxHandled /\ handled' = handled + 1
  /\ issued' = issued + ids
  /\ Persist(cfg, s, tab)

-----------------------------------------------------------------------------
(* Servers                                                                  *)

AddServer(n, h) ==
  /\ Handler([config EXCEPT !.servers = Put(@, issued + 1, [name |-> n, host |-> h])], shown, 1)
  /\ RefreshServers(issued + 1)

EditServer(n, h) ==
  /\ shown # NoId
  /\ Handler([config EXCEPT !.servers[shown] = [name |-> n, host |-> h]], shown, 0)
  /\ RefreshServers(shown)

\* The copies of the server, its groups and commands, and of the bundles B, with the
\* steps that are among these commands. The copy of x gets the id CopyOf(x); n is the
\* copy_name.
CopyOf(x) == issued + x
StepsAmong(cfg, b, C) == Among(cfg.bundles[b].steps, C)

Copies(cfg, n, B) ==
  LET G == GroupsFor(cfg, shown)
      C == CommandsFor(cfg, shown)
      s == CopyOf(shown)
      copied(S) == {CopyOf(x) : x \in S}
  IN  [cfg EXCEPT
        !.servers  = Put(@, s, [name |-> n, host |-> @[shown].host]),
        !.groups   = [g \in DOMAIN @ \cup copied(G) |->
                        IF g \in DOMAIN @ THEN @[g] ELSE [server |-> s, name |-> @[g - issued].name]],
        !.commands = [c \in DOMAIN @ \cup copied(C) |->
                        IF c \in DOMAIN @ THEN @[c]
                        ELSE LET old == @[c - issued] IN
                             [server |-> s, group |-> IF old.group \in G THEN CopyOf(old.group) ELSE NoId,
                              name |-> old.name]],
        !.order    = @ \o LET old == Among(@, C) IN [i \in DOMAIN old |-> CopyOf(old[i])],
        !.bundles  = [b \in DOMAIN @ \cup copied(B) |->
                        IF b \in DOMAIN @ THEN @[b]
                        ELSE [server |-> s, name |-> @[b - issued].name,
                              steps |-> LET old == StepsAmong(cfg, b - issued, C) IN [i \in DOMAIN old |-> CopyOf(old[i])]]]]

\* The bundles are looked up by the id of the old server, through a pointer into the
\* vector that the new one was just added to: if the vector had to grow, what is read
\* there is no server's id, and no bundle is copied.
CopiedBundles(cfg) == {b \in BundlesFor(cfg, shown) : StepsAmong(cfg, b, CommandsFor(cfg, shown)) # <<>>}

DuplicateServer(n) ==
  /\ shown # NoId /\ n \notin NamesOf(config.servers, DOMAIN config.servers)
  /\ \E B \in {CopiedBundles(config), {}} : Handler(Copies(config, n, B), shown, issued)
  /\ RefreshServers(CopyOf(shown))

DropServer(cfg, s) ==
  [cfg EXCEPT !.servers  = Without(@, {s}),
              !.commands = Without(@, CommandsFor(cfg, s)),
              !.order    = Besides(@, CommandsFor(cfg, s)),
              !.groups   = Without(@, GroupsFor(cfg, s)),
              !.bundles  = Without(@, BundlesFor(cfg, s))]

\* The row of the deleted server has by now the index of the one after it, if any:
\* persist takes that one for the selected server, with the tab of the deleted one.
DeleteServer ==
  LET rest == DOMAIN config.servers \ {shown}
      saved(s) == Handler(DropServer(config, shown), s, 0)
  IN  /\ shown # NoId
      /\ \/ \E s \in Following(shown, rest) : saved(s) /\ RefreshServers(s)
         \/ Following(shown, rest) = {} /\ saved(NoId) /\ RefreshServers(config.last_server)

SelectServer(s) ==
  /\ s # shown /\ shown' = s /\ tab' = TabOf(config, s)
  /\ UNCHANGED <<config, file, issued, handled, failures>>

-----------------------------------------------------------------------------
(* Groups                                                                   *)

\* A group is remembered as the one to show, but persist then overwrites this by
\* the tab that is still shown.
RememberGroup(cfg, s, g) == [cfg EXCEPT !.last_group = Put(@, s, g)]

AddGroup(n) ==
  /\ shown # NoId
  /\ \A g \in GroupsFor(config, shown) : LowerName[config.groups[g].name] # LowerName[n]
  /\ Handler([RememberGroup(config, shown, issued + 1) EXCEPT
                !.groups = Put(@, issued + 1, [server |-> shown, name |-> n])], shown, 1)
  /\ RebuildTabs

RenameGroup(g, n) ==
  /\ Handler([config EXCEPT !.groups[g].name = n], shown, 0)
  /\ RebuildTabs

\* Mutant: its commands keep the id of the group.
RemoveGroupOnly(cfg, g) ==
  [cfg EXCEPT !.groups = Without(@, {g})]

\* remove_group: its commands go to the tab "Общее"
RemoveGroup(cfg, g) ==
  [cfg EXCEPT !.commands = [c \in DOMAIN @ |-> IF @[c].group = g THEN [@[c] EXCEPT !.group = NoId] ELSE @[c]],
              !.groups   = Without(@, {g})]

DeleteGroup(g) ==
  /\ Handler(RemoveGroup(RememberGroup(config, shown, NoId), g), shown, 0)
  /\ RebuildTabs

SelectTab(g) ==
  /\ g # tab /\ tab' = g
  /\ config' = RememberGroup(config, shown, g)
  /\ UNCHANGED <<file, shown, issued, handled, failures>>

-----------------------------------------------------------------------------
(* Commands                                                                 *)

WithCommand(cfg, c, cmd) ==
  [cfg EXCEPT !.commands = Put(@, c, cmd), !.order = IF c \in DOMAIN cfg.commands THEN @ ELSE Append(@, c)]

Visible == InList(config, shown, tab)

\* CommandDialog::on_ok, for a new command or one that is visible: the chosen
\* server is found by its name, the group is one of that server.
CommandAccepted(c, n, s, g, ids) ==
  /\ Chosen(config, s) /\ g \in {NoId} \cup GroupsFor(config, s)
  /\ Handler(RememberGroup(WithCommand(config, c, [server |-> s, group |-> g, name |-> n]), s, g), shown, ids)
  /\ RefreshServers(s)

AddCommand(n, s, g) == shown # NoId /\ CommandAccepted(issued + 1, n, s, g, 1)

EditCommand(c, n, s, g) == c \in Visible /\ CommandAccepted(c, n, s, g, 0)

\* The chosen presets whose names the server has not yet, in the shown group.
AddPresets(names) ==
  /\ shown # NoId
  /\ IsInjective(names) /\ Range(names) \cap NamesOf(config.commands, CommandsFor(config, shown)) = {}
  /\ LET new == [i \in 1 .. Len(names) |-> issued + i] IN
     Handler([config EXCEPT
                !.commands = [c \in DOMAIN @ \cup Range(new) |->
                                IF c \in DOMAIN @ THEN @[c]
                                ELSE [server |-> shown, group |-> tab, name |-> names[c - issued]]],
                !.order = @ \o new], shown, Len(names))
  /\ RefreshCommands

DuplicateCommand(c, n) ==
  /\ c \in Visible /\ n \notin NamesOf(config.commands, CommandsFor(config, shown))
  /\ Handler(WithCommand(config, issued + 1, [config.commands[c] EXCEPT !.name = n]), shown, 1)
  /\ RefreshCommands

\* Mutant: bundles keep the ids.
DropCommandsOnly(cfg, C) ==
  [cfg EXCEPT !.commands = Without(@, C), !.order = Besides(@, C)]

\* drop_command_from_bundles, for each of C
DropSteps(bundle, C) == [bundle EXCEPT !.steps = Besides(@, C)]

\* ... then they are erased.
DropCommands(cfg, C) ==
  [cfg EXCEPT !.bundles  = [b \in DOMAIN @ |-> DropSteps(@[b], C)],
              !.commands = Without(@, C),
              !.order    = Besides(@, C)]

DeleteCommands(C) ==
  /\ C \subseteq Visible /\ C # {}
  /\ Handler(DropCommands(config, C), shown, 0)
  /\ RefreshCommands

MoveToGroup(C, g) ==
  /\ C \subseteq Visible /\ C # {} /\ g \in {NoId} \cup GroupsFor(config, shown) /\ g # tab
  /\ Handler(RememberGroup(
       [config EXCEPT !.commands = [c \in DOMAIN @ |-> IF c \in C THEN [@[c] EXCEPT !.group = g] ELSE @[c]]],
       shown, g), shown, 0)
  /\ RebuildTabs

\* Mutant: any delta.
NeighboursAny(cfg, L, i, j) == i < j /\ {cfg.order[i], cfg.order[j]} \subseteq L

\* move_command: c and its neighbour in the list (server, group) change places in
\* the vector; set_commands_for leaves the commands of other lists where they are.
Moved(cfg, i, j) == [cfg EXCEPT !.order[i] = cfg.order[j], !.order[j] = cfg.order[i]]

Neighbours(cfg, L, i, j) ==
  i < j /\ cfg.order[i] \in L /\ cfg.order[j] \in L /\ \A k \in i + 1 .. j - 1 : cfg.order[k] \notin L

MoveCommand(i, j) ==
  /\ Neighbours(config, Visible, i, j)
  /\ Handler(Moved(config, i, j), shown, 0)
  /\ RefreshCommands

-----------------------------------------------------------------------------
(* Bundles                                                                  *)

StepSeqs(S) == UNION {[1 .. n -> S] : n \in 1 .. MaxSteps}

\* BundleDialog keeps the steps that exist and offers the commands of the server.
Offered(b) == CommandsFor(config, shown) \cup (DOMAIN config.commands \cap Range(config.bundles[b].steps))

BundleAccepted(b, n, steps, ids) ==
  /\ shown # NoId /\ CommandsFor(config, shown) # {}
  /\ Handler([config EXCEPT !.bundles = Put(@, b, [server |-> shown, name |-> n, steps |-> steps])], shown, ids)
  /\ RefreshCommands

AddBundle(n, steps) == BundleAccepted(issued + 1, n, steps, 1)

EditBundle(b, n, steps) == b \in BundlesFor(config, shown) /\ BundleAccepted(b, n, steps, 0)

DeleteBundle(b) ==
  /\ Handler([config EXCEPT !.bundles = Without(@, {b})], shown, 0)
  /\ RefreshCommands

-----------------------------------------------------------------------------
(* Layout, closing, starting again                                          *)

\* Columns, windows, settings and the end of the program save as well.
SaveLayout ==
  /\ Persist(config, shown, tab) /\ RefreshCommands
  /\ UNCHANGED <<issued, handled>>

\* load_config drops groups and bundles that have no server.
Loaded(f) ==
  [f EXCEPT !.groups  = Keep(@, {g \in DOMAIN @ : @[g].server # NoId}),
            !.bundles = Keep(@, {b \in DOMAIN @ : @[b].server # NoId})]

\* The program ends (a save on closing is a SaveLayout before) and starts; it saves
\* what it has loaded and does not go on if that fails.
Restart ==
  /\ config' = Loaded(file) /\ file' = config'
  /\ RefreshServers(config'.last_server)
  /\ UNCHANGED <<issued, handled, failures>>

Init ==
  /\ config = Loaded(Saved) /\ file = config
  /\ shown \in Row(config, Saved.last_server)
  /\ tab = TabOf(config, shown)
  /\ issued = SavedIds /\ handled = 0 /\ failures = 0

ServerStep ==
  \/ \E n \in Names, h \in Hosts : AddServer(n, h) \/ EditServer(n, h)
  \/ \E n \in Names : DuplicateServer(n)
  \/ DeleteServer
  \/ \E s \in DOMAIN config.servers : SelectServer(s)

GroupStep ==
  \/ \E n \in Names : AddGroup(n)
  \/ \E g \in GroupsFor(config, shown), n \in Names : RenameGroup(g, n)
  \/ \E g \in GroupsFor(config, shown) : DeleteGroup(g)
  \/ \E g \in {NoId} \cup GroupsFor(config, shown) : shown # NoId /\ SelectTab(g)

CommandStep ==
  \/ \E n \in Names, s \in DOMAIN config.servers, g \in {NoId} \cup DOMAIN config.groups :
       \/ AddCommand(n, s, g)
       \/ \E c \in Visible : EditCommand(c, n, s, g)
  \/ \E n \in 1 .. MaxPresets : \E names \in [1 .. n -> Names] : AddPresets(names)
  \/ \E n \in Names, c \in Visible : DuplicateCommand(c, n)
  \/ \E C \in SUBSET Visible : DeleteCommands(C) \/ \E g \in {NoId} \cup DOMAIN config.groups : MoveToGroup(C, g)
  \/ \E i, j \in DOMAIN config.order : MoveCommand(i, j)

BundleStep ==
  \/ \E n \in Names, steps \in StepSeqs(CommandsFor(config, shown)) : AddBundle(n, steps)
  \/ \E b \in BundlesFor(config, shown) :
       \/ \E n \in Names, steps \in StepSeqs(Offered(b)) : EditBundle(b, n, steps)
       \/ DeleteBundle(b)

Next == ServerStep \/ GroupStep \/ CommandStep \/ BundleStep \/ SaveLayout \/ Restart

Spec == Init /\ [][Next]_vars

-----------------------------------------------------------------------------
(* Properties                                                               *)

\* Whatever is added, moved, copied, deleted, saved or not saved, in whatever order:
\* in memory and in the file every group, command and bundle belongs to a server
\* that exists and every command to a group of its own server; and the tab that new
\* commands are put under is one of the selected server's.
ReferencesHold ==
  /\ References(config) /\ References(file)
  /\ shown \in {NoId} \cup DOMAIN config.servers
  /\ tab \in {NoId} \cup GroupsFor(config, shown)

Before(cfg, c, d) == \E i, j \in DOMAIN cfg.order : i < j /\ cfg.order[i] = c /\ cfg.order[j] = d
SameList(cfg, c, d) ==
  /\ {c, d} \subseteq DOMAIN cfg.commands
  /\ cfg.commands[c].server = cfg.commands[d].server /\ cfg.commands[c].group = cfg.commands[d].group

\* The saved order of a list changes by "up" and "down" only, in the list that is
\* shown, and only for two commands that stood next to each other in it.
OrderKept ==
  [][config' # Loaded(file) =>
     \A c, d \in DOMAIN config.commands :
       (Before(config, c, d) /\ SameList(config, c, d) /\ SameList(config', c, d) /\ ~Before(config', c, d))
       => /\ {c, d} \subseteq Visible
          /\ ~\E e \in Visible : Before(config, c, e) /\ Before(config, e, d)
          /\ Before(config', d, c)]_vars

\* The steps of every bundle are commands of its server.
StepsLocal(cfg) ==
  \A b \in DOMAIN cfg.bundles : Range(cfg.bundles[b].steps) \subseteq CommandsFor(cfg, cfg.bundles[b].server)

\* Bundles go on having commands of their own server for steps, unless a command is
\* given to another server.
StepsStayLocal ==
  [][(/\ StepsLocal(config) /\ StepsLocal(file)
      /\ \A c \in DOMAIN config.commands \cap DOMAIN config'.commands :
           config'.commands[c].server = config.commands[c].server)
     => StepsLocal(config')]_vars
=============================================================================
