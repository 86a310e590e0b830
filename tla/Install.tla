------------------------------- MODULE Install --------------------------------
(***************************************************************************)
(* JsonGen (client/GenerateJSON.cpp): a model somebody dropped into a      *)
(* folder of ./models is moved to the folder named for its author and its  *)
(* name, with an info.json, its textures, texts and motions, and the       *)
(* folder it came in is deleted.  It runs at the start of the client and   *)
(* with Model.rebuild; the client may be stopped in the middle of it and   *)
(* begins again from what is on the disk.                                  *)
(*                                                                         *)
(* A file is a member of a folder.  JsonGen looks at no result: a folder   *)
(* that cannot be made, an info.json that cannot be opened (an illegal     *)
(* name, a full disk) or a copy that fails is passed over.  A height is in *)
(* tenths of a metre, and how a header is read is left out.                *)
(***************************************************************************)
EXTENDS Integers, FiniteSets

CONSTANTS
    Models,      \* *.pmx and *.pmd files
    Folders,     \* folders of ./models without an info.json
    Kept,        \* models/キャラクター/, which is never deleted
    FolderOf,    \* [Models -> Folders]
    HomeOf,      \* [Models -> homes], author and name as the file has them
    Carried,     \* [Models -> textures, texts and motions beside the model]
    HeightOf,    \* [Models -> height of its highest root bone]
    Readable,    \* models with the header of a version that is known, which load
    MaxStops     \* bound on the stops of the client

Homes == {HomeOf[m] : m \in Models}
NoHeight == -1
CutHeight == -2
NoModel == "no model"
NoFolder == "no folder"
DefaultHeight == 16

\* No two models are one file of one home, nobody drops a model into a folder
\* named for an author, and textures, texts and motions are not models.
ASSUME InstallAssumption ==
    /\ FolderOf \in [Models -> Folders] /\ Homes \cap Folders = {} /\ NoFolder \notin Folders
    /\ \A m \in Models : Carried[m] \cap Models = {}
    /\ NoModel \notin Models /\ Readable \subseteq Models
    /\ HeightOf \in [Models -> Nat] /\ MaxStops \in Nat

VARIABLES
    disk,     \* files that are there: <<folder, file>>
    torn,     \* those of them a stop in the middle of CopyFile left incomplete
    info,     \* height in the info.json of each home: NoHeight without one,
              \* CutHeight if a stop left it incomplete
    failed,   \* history: models for which a call has failed
    step,     \* where JsonGen is
    todo,     \* folders FindNextFile has not come to
    folder,   \* tcsTmpDir
    work,     \* pmd_paths, from i on
    model,    \* pmd_paths[i], once it is loaded
    extras,   \* what is to be copied with it
    tallest,  \* prePos.y
    stops     \* stops so far

persisted == <<disk, torn, info, failed>>
run == <<todo, folder, work, model>>
installVars == <<persisted, run, extras, step, tallest, stops>>

Forgotten ==
    /\ todo' = {} /\ folder' = NoFolder /\ work' = {} /\ model' = NoModel
    /\ extras' = {} /\ tallest' = 0

InstallInit ==
    /\ disk = UNION {{FolderOf[m]} \X ({m} \cup Carried[m]) : m \in Models}
    /\ torn = {} /\ info = [h \in Homes |-> NoHeight] /\ failed = {}
    /\ step = "off" /\ todo = {} /\ folder = NoFolder /\ work = {} /\ model = NoModel
    /\ extras = {} /\ tallest = 0 /\ stops = 0

In(place) == {f[2] : f \in {x \in disk : x[1] = place}}
ModelsIn(place) == In(place) \cap Models

-----------------------------------------------------------------------------
\* JsonGen::JsonGen begins: nothing but the disk is left of the run before.
Start ==
    /\ step = "off" /\ step' = "folders"
    /\ todo' = Folders /\ UNCHANGED <<persisted, folder, work, model, extras, tallest, stops>>

\* A folder with models in it; one without is passed over.
OpenFolder(d) ==
    /\ step = "folders" /\ d \in todo /\ todo' = todo \ {d}
    /\ IF ModelsIn(d) = {} THEN UNCHANGED <<step, folder, work>>
       ELSE step' = "models" /\ folder' = d /\ work' = ModelsIn(d)
    /\ UNCHANGED <<persisted, model, extras, tallest, stops>>

\* The height is that of the model, or of a taller one before it.
HeightAfter(m) == IF HeightOf[m] > tallest THEN HeightOf[m] ELSE tallest

\* The header is read and the model loaded; `continue` when that fails.
ReadModel(m) ==
    /\ step = "models" /\ m \in work /\ work' = work \ {m}
    /\ IF m \in Readable
       THEN step' = "info" /\ model' = m /\ tallest' = HeightAfter(m)
       ELSE UNCHANGED <<step, model, tallest>>
    /\ UNCHANGED <<persisted, todo, folder, extras, stops>>

Height == IF tallest = 0 THEN DefaultHeight ELSE tallest

\* The folder is made and its info.json written, over one that is there, or it
\* cannot be opened; the copies follow all the same.
WriteInfo ==
    /\ step = "info" /\ step' = "extras" /\ extras' = Carried[model] \cap In(folder)
    /\ \/ info' = [info EXCEPT ![HomeOf[model]] = Height] /\ UNCHANGED failed
       \/ failed' = failed \cup {model} /\ UNCHANGED info
    /\ UNCHANGED <<disk, torn, run, tallest, stops>>

\* A file that is there already is not copied over (bFailIfExists).
Copies(file) == <<folder, file>> \in disk /\ <<HomeOf[model], file>> \notin disk

\* CopyFile: what the home still lacks after it, the call has failed to bring.
CopyFile(file) ==
    /\ \/ Copies(file) /\ disk' = disk \cup {<<HomeOf[model], file>>}
       \/ UNCHANGED disk
    /\ failed' = IF <<HomeOf[model], file>> \in disk' THEN failed ELSE failed \cup {model}
    /\ UNCHANGED <<torn, info>>

\* Textures, texts and motions, one after the other.
CopyExtra(f) ==
    /\ step = "extras" /\ f \in extras /\ extras' = extras \ {f}
    /\ CopyFile(f)
    /\ UNCHANGED <<step, run, tallest, stops>>

CopyModel ==
    /\ step = "extras" /\ extras = {} /\ step' = "models"
    /\ CopyFile(model) /\ model' = NoModel
    /\ UNCHANGED <<todo, folder, work, extras, tallest, stops>>

\* Mutant of ModelsDone: the folder goes with its first model.
ModelsDoneEarly == step = "models" /\ Readable \cap work # Readable \cap ModelsIn(folder)
ModelsDone == step = "models" /\ work = {}

\* Whatever failed, the folder goes.
FolderDone ==
    /\ ModelsDone
    /\ step' = (IF folder = Kept THEN "folders" ELSE "deleting")
    /\ UNCHANGED <<persisted, run, extras, tallest, stops>>

\* DeleteDirectory, file by file in the order the disk has them.
DeleteFile(f) ==
    /\ step = "deleting" /\ f \in In(folder)
    /\ disk' = disk \ {<<folder, f>>}
    /\ UNCHANGED <<torn, info, failed, step, run, extras, tallest, stops>>

\* It ends with the last file, or at one that cannot be deleted.
DeleteEnds ==
    /\ step = "deleting" /\ step' = "folders"
    /\ UNCHANGED <<persisted, run, extras, tallest, stops>>

Ends ==
    /\ step = "folders" /\ todo = {} /\ step' = "off" /\ Forgotten
    /\ UNCHANGED <<persisted, stops>>

\* A stop in the middle of a copy leaves a part of the file, which no later run
\* copies over; one in the middle of a write leaves a part of the info.json.
CutsCopy ==
    /\ step = "extras"
    /\ \E f \in IF extras = {} THEN {model} ELSE extras :
          /\ Copies(f)
          /\ disk' = disk \cup {<<HomeOf[model], f>>}
          /\ torn' = torn \cup {<<HomeOf[model], f>>}
    /\ UNCHANGED <<info, failed>>
CutsInfo ==
    /\ step = "info" /\ info' = [info EXCEPT ![HomeOf[model]] = CutHeight]
    /\ UNCHANGED <<disk, torn, failed>>

\* The client is stopped; its variables are gone.
Stops ==
    /\ step # "off" /\ stops < MaxStops
    /\ step' = "off" /\ stops' = stops + 1 /\ Forgotten
    /\ CutsCopy \/ CutsInfo \/ UNCHANGED persisted

Installing ==
    \/ \E d \in Folders : OpenFolder(d)
    \/ \E m \in Models : ReadModel(m)
    \/ WriteInfo
    \/ \E f \in UNION {Carried[m] : m \in Models} : CopyExtra(f)
    \/ CopyModel \/ FolderDone
    \/ \E f \in Models \cup UNION {Carried[m] : m \in Models} : DeleteFile(f)
    \/ DeleteEnds \/ Ends

InstallNext == Start \/ Installing \/ Stops

\* The client is started again, and gets on.
InstallFair == WF_installVars(Start \/ Installing)
InstallSpec == InstallInit /\ [][InstallNext]_installVars /\ InstallFair

-----------------------------------------------------------------------------
Belongs(m) == {HomeOf[m]} \X ({m} \cup Carried[m])

Installed(m) ==
    /\ info[HomeOf[m]] \notin {NoHeight, CutHeight}
    /\ Belongs(m) \subseteq disk \ torn

\* What JsonGen does not notice: a call that failed, a file that was cut off.
Spoilt(m) ==
    m \in failed \/ Belongs(m) \cap torn # {} \/ info[HomeOf[m]] = CutHeight

(* A model that can be read is lost only by a call that fails or by a stop *)
(* in the middle of a copy or a write.  Wherever else the client is        *)
(* stopped, and whichever files could not be deleted, it leaves the folder *)
(* it was dropped into only when its home has it with all that belongs to  *)
(* it; and once the client has begun, some run of it brings the model      *)
(* there for good (JsonGen::JsonGen, DeleteDirectory).                     *)
ModelsComeHome ==
    /\ [](\A m \in Readable : m \in In(FolderOf[m]) \/ Installed(m) \/ Spoilt(m))
    /\ \A m \in Readable : step # "off" ~> [](Installed(m) \/ Spoilt(m))
===============================================================================
