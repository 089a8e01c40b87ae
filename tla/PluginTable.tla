----------------------------- MODULE PluginTable -----------------------------
(***************************************************************************)
(* The registry of decoder plugins of decoder_plugins.cpp: a table of      *)
(* shared libraries, found by file name, that is filled from a folder and  *)
(* kept up to date by the events of libuv's watch on it.                   *)
(*                                                                         *)
(* Libraries are numbered in the order in which dlopen opened them; the    *)
(* number stands for the handle and for the functions found in it.  A      *)
(* dlclose of a handle that is closed already returns an error and does    *)
(* nothing: it is assumed that dlopen does not give the value of a closed  *)
(* handle to another library while the table still holds it.               *)
(***************************************************************************)
EXTENDS Naturals, Sequences, FiniteSets

CONSTANTS PluginNames,  \* the names of libraries
          MaxPlugins,   \* m_plugin_capacity
          MaxOpened     \* bound: the libraries that are ever opened

VARIABLES
  plugins,     \* m_plugins, the first m_plugin_count of them
  open,        \* the libraries that are open
  opened,      \* how many dlopen has opened
  phase,       \* "scanning" in create_registry, "up", "destroyed"
  unscanned,   \* the files readdir will still return
  disk,        \* the files that dlopen and dlsym accept; the others are missing
               \* or no plugins
  changes,     \* the files for which a UV_CHANGE is on its way
  failed,      \* history: the plugins whose last reload failed
  pointer,     \* what a caller holds from find_plugin: a slot and its name
  unloaded     \* history: a plugin was unloaded since

table == <<plugins, open, opened, failed>>
folder == <<disk, changes>>
pluginVars == <<table, folder, phase, unscanned, pointer, unloaded>>

Entry == [name : PluginNames, library : 1 .. MaxOpened]

NoPointer == [slot |-> 0, name |-> "none"]

TypeOK ==
  /\ plugins \in Seq(Entry) /\ Len(plugins) <= MaxPlugins
  /\ open \subseteq 1 .. opened
  /\ opened \in 0 .. MaxOpened
  /\ phase \in {"scanning", "up", "destroyed"}
  /\ unscanned \subseteq PluginNames
  /\ disk \subseteq PluginNames
  /\ changes \subseteq PluginNames
  /\ failed \subseteq PluginNames
  /\ pointer \in [slot : 1 .. MaxPlugins, name : PluginNames] \cup {NoPointer}
  /\ unloaded \in BOOLEAN

\* create_registry starts the watch and then reads the folder.
Init ==
  /\ plugins = <<>> /\ open = {} /\ opened = 0
  /\ disk \in SUBSET PluginNames
  /\ unscanned \in {files \in SUBSET PluginNames : disk \subseteq files}
  /\ phase = "scanning"
  /\ changes = {}
  /\ failed = {}
  /\ pointer = NoPointer /\ unloaded = FALSE

------------------------------------------------------------------------------

SlotOf(n) == {i \in DOMAIN plugins : plugins[i].name = n}

LibrariesOf(slots) == {plugins[i].library : i \in slots}

\* Mutant: a reload that leaves the old library open.
KeepOld(n) == open

\* A plugin that is in the table is closed before it is opened again.
CloseOld(n) == open \ LibrariesOf(SlotOf(n))

\* Mutant: a plugin that is loaded again gets a second entry.
StoreAtEnd(n) == Append(plugins, [name |-> n, library |-> opened + 1])

\* Mutant: a reload that forgets the new handle.
StoreOnlyNew(n) ==
  IF SlotOf(n) = {} THEN StoreAtEnd(n) ELSE plugins

\* Mutant: a new plugin at the front of the table.
StoreAtFront(n) ==
  IF SlotOf(n) = {} THEN <<[name |-> n, library |-> opened + 1]>> \o plugins
  ELSE [i \in DOMAIN plugins |->
          IF i \in SlotOf(n) THEN [name |-> n, library |-> opened + 1] ELSE plugins[i]]

\* A new plugin goes to the end, one that is reloaded keeps its slot.
Store(n) ==
  LET entry == [name |-> n, library |-> opened + 1] IN
  IF SlotOf(n) = {} THEN Append(plugins, entry)
  ELSE [i \in DOMAIN plugins |-> IF i \in SlotOf(n) THEN entry ELSE plugins[i]]

\* Mutant: a full table is not looked at.
NeverFull == FALSE

Full == Len(plugins) >= MaxPlugins

\* load_plugin.  A full table refuses, even a plugin it holds.  A file that
\* dlopen or dlsym refuses is closed, and the entry stays as it is.
LoadPlugin(n) ==
  \/ Full /\ UNCHANGED table
  \/ /\ ~Full
     /\ n \notin disk
     /\ open' = CloseOld(n)
     /\ failed' = IF SlotOf(n) = {} THEN failed ELSE failed \cup {n}
     /\ UNCHANGED <<plugins, opened>>
  \/ /\ ~Full
     /\ n \in disk
     /\ opened < MaxOpened
     /\ opened' = opened + 1
     /\ open' = CloseOld(n) \cup {opened + 1}
     /\ plugins' = Store(n)
     /\ failed' = failed \ {n}

\* The loop over the folder in create_registry; files change meanwhile.
Scan(n) ==
  /\ phase = "scanning" /\ n \in unscanned
  /\ unscanned' = unscanned \ {n}
  /\ LoadPlugin(n)
  /\ UNCHANGED <<folder, phase, pointer, unloaded>>

ScanEnds ==
  /\ phase = "scanning" /\ unscanned = {}
  /\ phase' = "up"
  /\ UNCHANGED <<table, folder, unscanned, pointer, unloaded>>

\* on_fs_event, called by the event loop.
OnFsEvent(n) ==
  /\ phase = "up" /\ n \in changes
  /\ changes' = changes \ {n}
  /\ LoadPlugin(n)
  /\ UNCHANGED <<disk, phase, unscanned, pointer, unloaded>>

\* Mutant: the count goes down and the last plugin is gone instead.
WithoutKept(i) == SubSeq(plugins, 1, Len(plugins) - 1)

\* The last plugin takes the place of the one that is removed.
Without(i) ==
  [k \in 1 .. Len(plugins) - 1 |->
     IF k = i THEN plugins[Len(plugins)] ELSE plugins[k]]

\* unload_plugin.
UnloadPlugin(n) ==
  /\ phase = "up"
  /\ \E i \in SlotOf(n) :
       /\ open' = open \ {plugins[i].library}
       /\ plugins' = Without(i)
  /\ failed' = failed \ {n}
  /\ unloaded' = TRUE
  /\ UNCHANGED <<opened, folder, phase, unscanned, pointer>>

\* find_plugin returns a pointer into the table.
FindPlugin(n) ==
  /\ phase = "up"
  /\ \E i \in SlotOf(n) : pointer' = [slot |-> i, name |-> n]
  /\ unloaded' = FALSE
  /\ UNCHANGED <<table, folder, phase, unscanned>>

DestroyRegistry ==
  /\ phase = "up"
  /\ open' = open \ LibrariesOf(DOMAIN plugins)
  /\ plugins' = <<>>
  /\ phase' = "destroyed"
  /\ changes' = {}
  /\ failed' = {}
  /\ pointer' = NoPointer
  /\ UNCHANGED <<opened, disk, unscanned, unloaded>>

\* A file is written in place, which is a UV_CHANGE, or made, removed or
\* replaced, which is a UV_RENAME that on_fs_event does not act on.
FileChanges(n) ==
  /\ phase # "destroyed"
  /\ disk' \in {disk \cup {n}, disk \ {n}}
  /\ changes' \in {changes, changes \cup {n}}
  /\ UNCHANGED <<table, phase, unscanned, pointer, unloaded>>

Next ==
  \/ \E n \in PluginNames :
       Scan(n) \/ OnFsEvent(n) \/ UnloadPlugin(n) \/ FindPlugin(n) \/ FileChanges(n)
  \/ ScanEnds \/ DestroyRegistry

Spec == Init /\ [][Next]_pluginVars

------------------------------------------------------------------------------

EntriesDistinct ==
  \A i, k \in DOMAIN plugins :
    plugins[i].name = plugins[k].name \/ plugins[i].library = plugins[k].library
      => i = k

NoLibraryLeaked == open \subseteq LibrariesOf(DOMAIN plugins)

ClosedOnlyAfterFailure ==
  \A i \in DOMAIN plugins : plugins[i].library \notin open => plugins[i].name \in failed

PointersLast ==
  pointer # NoPointer /\ ~unloaded =>
    /\ pointer.slot \in DOMAIN plugins
    /\ plugins[pointer.slot].name = pointer.name

\* Through reloads, failures, removals and destroy, every library that is open
\* is in the table, once, and will be closed; the table holds a closed one,
\* whose functions are gone, only for a plugin whose last reload failed; and a
\* pointer from find_plugin remains a pointer to that plugin until something is
\* unloaded or the registry is destroyed.
LibrariesAccountedFor ==
  NoLibraryLeaked /\ EntriesDistinct /\ ClosedOnlyAfterFailure /\ PointersLast

==============================================================================
