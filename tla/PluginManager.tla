---------------------------- MODULE PluginManager ----------------------------
(***************************************************************************)
(* The plugins of each client (src/core/plugin.cpp). The mutex protects    *)
(* the map and is not held while a hook runs, so that threads load and     *)
(* unload side by side. Plugins of different names do not meet: the model  *)
(* has those of one name, of which a client holds at most one.             *)
(***************************************************************************)
EXTENDS Naturals

CONSTANTS Thread, Client, Plugin,
          Plugged,    \* bound: clients that plugins are registered with
          None        \* no plugin, no client, no thread

ASSUME NoneAssumption ==
  /\ None \notin Thread \cup Client \cup Plugin
  /\ Client \subseteq Nat /\ Plugin \subseteq Nat

VARIABLES
  plugins,   \* plugins_: the plugin each client has under the name
  pc,        \* where each thread is
  client,    \* the client it holds
  plugin,    \* the plugin whose hook it runs
  home,      \* history: the client a plugin was registered with
  loaded,    \* history: plugins whose on_load has returned
  unloads,   \* history: calls of on_unload
  evicted    \* history: plugins a failing on_load has thrown out

pluginVars == <<plugins, plugin, home, loaded, unloads, evicted>>

PluginTypeOK ==
  /\ plugins \in [Client -> Plugin \cup {None}]
  /\ plugin \in [Thread -> Plugin \cup {None}]
  /\ home \in [Plugin -> Client \cup {None}]
  /\ loaded \subseteq Plugin
  /\ unloads \in [Plugin -> Nat]
  /\ evicted \subseteq Plugin

PluginInit ==
  /\ plugins = [c \in Client |-> None]
  /\ plugin = [t \in Thread |-> None]
  /\ home = [p \in Plugin |-> None]
  /\ loaded = {}
  /\ unloads = [p \in Plugin |-> 0]
  /\ evicted = {}

Goes(t, where) == pc' = [pc EXCEPT ![t] = where]

-----------------------------------------------------------------------------
(* register_plugin: the plugin is in the map before its on_load is called. *)
(* Plugins are numbered in the order of their registration.                *)
Register(t, p) ==
  /\ pc[t] = "using"
  /\ client[t] \in Plugged
  /\ home[p] = None /\ \A q \in Plugin : q < p => home[q] # None
  /\ plugins[client[t]] = None
  /\ plugins' = [plugins EXCEPT ![client[t]] = p]
  /\ home' = [home EXCEPT ![p] = client[t]]
  /\ plugin' = [plugin EXCEPT ![t] = p]
  /\ Goes(t, "onLoad")
  /\ UNCHANGED <<client, loaded, unloads, evicted>>

OnLoadReturns(t) ==
  /\ pc[t] = "onLoad"
  /\ loaded' = loaded \cup {plugin[t]}
  /\ plugin' = [plugin EXCEPT ![t] = None]
  /\ Goes(t, "using")
  /\ UNCHANGED <<client, plugins, home, unloads, evicted>>

(* on_load throws: whatever has the name by now is erased.                 *)
OnLoadThrows(t) ==
  /\ pc[t] = "onLoad"
  /\ plugins' = [plugins EXCEPT ![client[t]] = None]
  /\ evicted' = evicted \cup ({plugins[client[t]]} \ {plugin[t], None})
  /\ plugin' = [plugin EXCEPT ![t] = None]
  /\ Goes(t, "using")
  /\ UNCHANGED <<client, home, loaded, unloads>>

(* Bug: the plugin stays in the map until its on_unload has returned. *)
FindToUnload(t) ==
  /\ pc[t] = "using"
  /\ plugins[client[t]] # None
  /\ plugin' = [plugin EXCEPT ![t] = plugins[client[t]]]
  /\ Goes(t, "onUnload")
  /\ UNCHANGED <<client, plugins, home, loaded, unloads, evicted>>

(* unregister_plugin: the plugin is out of the map before its on_unload is *)
(* called, even if its on_load has not returned yet.                       *)
Unregister(t) ==
  /\ pc[t] = "using"
  /\ plugins[client[t]] # None
  /\ plugin' = [plugin EXCEPT ![t] = plugins[client[t]]]
  /\ plugins' = [plugins EXCEPT ![client[t]] = None]
  /\ Goes(t, "onUnload")
  /\ UNCHANGED <<client, home, loaded, unloads, evicted>>

(* on_unload, and what it throws is dropped.                               *)
RunOnUnload(t) ==
  /\ unloads' = [unloads EXCEPT ![plugin[t]] = @ + 1]
  /\ plugin' = [plugin EXCEPT ![t] = None]
  /\ UNCHANGED <<client, plugins, home, loaded, evicted>>

OnUnload(t) ==
  /\ pc[t] = "onUnload"
  /\ RunOnUnload(t)
  /\ Goes(t, "using")

(* unload_all: the map is emptied first.                                   *)
UnloadAll(t) ==
  /\ pc[t] = "destroy"
  /\ plugin' = [plugin EXCEPT ![t] = plugins[client[t]]]
  /\ plugins' = [plugins EXCEPT ![client[t]] = None]
  /\ Goes(t, IF plugins[client[t]] = None THEN "join" ELSE "unloadAll")
  /\ UNCHANGED <<client, home, loaded, unloads, evicted>>

OnUnloadAll(t) ==
  /\ pc[t] = "unloadAll"
  /\ RunOnUnload(t)
  /\ Goes(t, "join")
=============================================================================
