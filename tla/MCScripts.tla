------------------------------ MODULE MCScripts -------------------------------
(***************************************************************************)
(* What the plugins of the client run on: the timers of a script, the      *)
(* isolates the plugins are called in, the memory their objects live in,   *)
(* the music and the files of the user they reach, and the program that    *)
(* installs the models.  One run checks them one after the other: `part` says which of them *)
(* a behaviour is about, and the others keep their initial state, in which *)
(* none of their fair actions is enabled.                                  *)
(***************************************************************************)
EXTENDS ScriptTimers, Plugins, Heap, Install, Music, UserFiles, TLC

MCCards == <<"textchat", "modellist">>
MCStarters == {<<"textchat", "modellist">>}

MCFolderOf == "a" :> "new" @@ "b" :> "new" @@ "broken" :> "kept"
MCHomeOf == "a" :> "A/miku" @@ "b" :> "A/miku" @@ "broken" :> "B/x"
MCCarried == "a" :> {"readme"} @@ "b" :> {"readme"} @@ "broken" :> {}
MCHeightOf == "a" :> 0 @@ "b" :> 15 @@ "broken" :> 0

MCKeyPairs == {[public_key |-> <<255>>, private_key |-> <<0, 62, 63, 9>>],
               [public_key |-> <<250, 1>>, private_key |-> <<3, 2, 7>>]}
MCDefault == "nametag" :> 1 @@ "walk" :> 0

VARIABLE part

scriptsVars == <<part, vars, pluginsVars, heapVars, installVars, musicVars, userVars>>

ScriptsInit ==
    /\ part \in {"timers", "plugins", "heap", "install", "music", "user"}
    /\ Init /\ PluginsInit /\ HeapInit /\ InstallInit /\ MusicInit /\ UserInit

TimersStep == part = "timers" /\ Next
PluginsStep == part = "plugins" /\ PluginsNext
HeapStep == part = "heap" /\ HeapNext
InstallStep == part = "install" /\ InstallNext
MusicStep == part = "music" /\ MusicNext
UserStep == part = "user" /\ UserNext

Still(of, state) == part # of => UNCHANGED state

ScriptsNext ==
    /\ UNCHANGED part
    /\ \/ TimersStep \/ PluginsStep \/ HeapStep \/ InstallStep \/ MusicStep \/ UserStep
    /\ Still("timers", vars) /\ Still("plugins", pluginsVars) /\ Still("heap", heapVars)
    /\ Still("install", installVars) /\ Still("music", musicVars) /\ Still("user", userVars)

\* Of each part the fairness of its own specification; what is fair in the
\* timers, the plugins and the music is not enabled in their initial states.
ScriptsSpec ==
    /\ ScriptsInit /\ [][ScriptsNext]_scriptsVars
    /\ Fairness /\ PluginsFair /\ MusicFair
    /\ WF_installVars(part = "install" /\ (Start \/ Installing))
===============================================================================
