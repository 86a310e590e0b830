------------------------------ MODULE MCScreens -------------------------------
(***************************************************************************)
(* The screen of the client: its scenes, the input box, the windows, a     *)
(* list of items and the objects docked in a window.  They share nothing   *)
(* but the main loop, so one run checks them one after the other: `part`   *)
(* says which of them a behaviour is about, and the others keep their      *)
(* initial state.                                                          *)
(***************************************************************************)
EXTENDS Scenes, TextInput, Windows, ListView, Layout, TLC

MCDock == [w \in Panes |-> IF w \in Radars THEN 2 ELSE 1]
MCLabels == {<<"a", "\n", "a", "a", "a">>}
MCMargins == [left |-> 2, right |-> 3]
MCBuilt == "window" :> "none" @@ "board" :> "window" @@ "label" :> "board"
               @@ "button" :> "board" @@ "group" :> "none"

VARIABLE part

screensVars == <<part, scenesVars, textInputVars, windowsVars, listVars, layoutVars>>

\* One initial state for the parts a behaviour is not about.
Pinned(name, others) == part = name \/ others

ScreensInit ==
    /\ part \in {"scenes", "text", "windows", "list", "layout"}
    /\ ScenesInit /\ TextInputInit /\ WindowsInit /\ ListViewInit /\ LayoutInit
    /\ Pinned("scenes", ~exists /\ \A i \in Items : config[i] = 0)
    /\ Pinned("windows", order[1] \in Radars /\ \A w \in Panes : pane[w].visible)

SceneStep == part = "scenes" /\ ScenesNext
TextStep == part = "text" /\ TextInputNext
WindowsStep == part = "windows" /\ WindowsNext
ListStep == part = "list" /\ ListViewNext
LayoutStep == part = "layout" /\ LayoutNext

Still(of, state) == part # of => UNCHANGED state

ScreensNext ==
    /\ UNCHANGED part
    /\ SceneStep \/ TextStep \/ WindowsStep \/ ListStep \/ LayoutStep
    /\ Still("scenes", scenesVars) /\ Still("text", textInputVars)
    /\ Still("windows", windowsVars) /\ Still("list", listVars)
    /\ Still("layout", layoutVars)

\* The main loop goes from frame to frame until the program ends.
ScreensSpec ==
    ScreensInit /\ [][ScreensNext]_screensVars /\ WF_scenesVars(part = "scenes" /\ ScenesFrame)
===============================================================================
