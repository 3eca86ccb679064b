----------------------------- MODULE PresetFiles -----------------------------
(* A preset imported from disk, edited, and exported as a bundle directory:    *)
(* the import_preset and export_preset commands on a file system whose writes  *)
(* fail and whose process dies between any two of them.  The disk is a         *)
(* function from paths to files; a directory exists while a file is under it.  *)
EXTENDS PresetExport, PresetPreview

Textures == INSTANCE PassBindings

CONSTANTS
    Disks,       \* the contents the disk starts from: path -> [lines]
    Presets,     \* the paths a user may import
    Dests,       \* the directories a user may export to
    NewPasses,   \* passes the editor may append, already compiled to code
    NewSettings, \* settings the editor may give the first pass
    MaxEdits, MaxExports  \* bounds

\* A pass the editor creates has been scanned for no references (factories.ts:68).
ASSUME NewPassesAssumption == \A pass \in NewPasses : "references" \in DOMAIN pass /\ pass.references = {}

\* Paths, the lines of a file, and the values of a preset's keys are sequences.
IsList(s) == Len(s) \in Nat /\ s = [k \in 1..Len(s) |-> s[k]]

\* A bundle is built beside the destination, not in it.
ASSUME DestsAssumption == \A d \in Dests : IsList(d) /\ d # <<>> /\ d[1] # "tmp-bundle"

ASSUME DisksAssumption ==
    \A d \in Disks :
        /\ \A path \in DOMAIN d : IsList(path)
        /\ \A path \in Presets \cap DOMAIN d :
              /\ IsList(d[path].lines)
              /\ \A k \in DOMAIN d[path].lines : IsList(d[path].lines[k].value) /\ d[path].lines[k].value # <<>>

VARIABLES disk, project, extras, edits, phase, jobs, warned,
          dest, answer, exported, kept, before, exports

vars == <<disk, project, extras, edits, phase, jobs, warned, dest, answer, exported, kept, before, exports>>

Answers == {"none", "Ok", "Refused", "Unreadable", "Io", "SwapFailed"}
Exporting == {"writing", "clearing"}
NoFiles == [p \in {} |-> File(<<>>)]

Under(dir) == {p \in DOMAIN disk : IsPrefix(dir, p)}
FilesUnder(dir) == [p \in {SubSeq(q, Len(dir) + 1, Len(q)) : q \in Under(dir)} |-> disk[dir \o p]]
Only(paths) == [p \in paths |-> disk[p]]

\* The bundle is built in a sibling of the destination.
StagingDirFor(dir) == <<"tmp-bundle">> \o dir

Init ==
    /\ disk \in Disks /\ project = {} /\ extras = [k \in {} |-> <<>>] /\ edits = 0
    /\ phase = "idle" /\ jobs = <<>> /\ warned = {} /\ dest = <<>> /\ answer = "none"
    /\ exported = {} /\ kept = FALSE /\ before = NoFiles /\ exports = 0

\* The start screen's import.  A preset that does not parse changes nothing.
Import(path) ==
    /\ phase = "idle" /\ exports = 0
    /\ IF CanImport(disk, path)
       THEN \E p \in {ImportPreset(disk, path)} :
              /\ project' = {p} /\ edits' = 0 /\ answer' = "none"
              /\ extras' = ParseSlangp(MapAt(disk, path), Dir(path)).extras
       ELSE answer' = "Unreadable" /\ UNCHANGED <<project, extras, edits>>
    /\ UNCHANGED <<disk, phase, jobs, warned, dest, exported, kept, before, exports>>

Edit(change(_)) ==
    /\ phase = "idle" /\ project # {} /\ edits < MaxEdits
    /\ \E p \in project : project' = {change(p)}
    /\ edits' = edits + 1
    /\ UNCHANGED <<disk, extras, phase, jobs, warned, dest, answer, exported, kept, before, exports>>

AppendPass(pass) == Edit(LAMBDA p : [p EXCEPT !.passes = Append(@, pass)])

SetPassSettings(s) ==
    /\ \A p \in project : p.passes # <<>>
    /\ Edit(LAMBDA p : [p EXCEPT !.passes[1].settings = s])

\* export_preset: the project is validated before anything is written; what an
\* interrupted export left is removed.
Export(dir, threaded) ==
    /\ phase = "idle" /\ project # {} /\ exports < MaxExports
    /\ exported' = project /\ kept' = threaded /\ dest' = dir /\ exports' = exports + 1
    /\ before' = FilesUnder(dir) /\ warned' = {}
    /\ \E p \in project :
          IF ValidateForExport(p) # {}
          THEN answer' = "Refused" /\ UNCHANGED <<disk, phase, jobs>>
          ELSE /\ answer' = "none" /\ phase' = "writing"
               /\ jobs' = WriteBundle(p, StagingDirFor(dir), IF threaded THEN extras ELSE [k \in {} |-> <<>>])
               /\ disk' = Only(DOMAIN disk \ Under(StagingDirFor(dir)))
    /\ UNCHANGED <<project, extras, edits>>

\* A copy that fails is a warning, not an error.
WriteNext ==
    /\ phase = "writing" /\ jobs # <<>>
    /\ LET job == Head(jobs)
           missing == job.op = "copy" /\ job.from \notin DOMAIN disk
       IN  /\ disk' = IF missing THEN disk
                      ELSE Set(disk, job.path, IF job.op = "copy" THEN disk[job.from] ELSE job.file)
           /\ warned' = IF missing THEN warned \cup {job.path} ELSE warned
    /\ jobs' = Tail(jobs)
    /\ UNCHANGED <<project, extras, edits, phase, dest, answer, exported, kept, before, exports>>

Stop(why) == phase' = "idle" /\ answer' = why /\ jobs' = <<>>

\* A write fails: the staging directory is removed.
WriteFails ==
    /\ phase = "writing" /\ jobs # <<>> /\ Head(jobs).op = "write"
    /\ Stop("Io") /\ disk' = Only(DOMAIN disk \ Under(StagingDirFor(dest)))
    /\ UNCHANGED <<project, extras, edits, warned, dest, exported, kept, before, exports>>

\* A mutant: the destination is cleared while the bundle is still being written.
WrittenEarly == phase' = "clearing" /\ phase = "writing"
                /\ UNCHANGED <<disk, jobs, project, extras, edits, warned, dest, answer, exported, kept, before, exports>>

\* All files are written: the destination makes way.
Written ==
    /\ phase = "writing" /\ jobs = <<>> /\ phase' = "clearing"
    /\ UNCHANGED <<disk, jobs, project, extras, edits, warned, dest, answer, exported, kept, before, exports>>

\* remove_dir_all takes one file at a time, in the order of the file system.
RemoveOld(path) ==
    /\ phase = "clearing" /\ disk' = Only(DOMAIN disk \ {path})
    /\ UNCHANGED <<project, extras, edits, phase, jobs, warned, dest, answer, exported, kept, before, exports>>

RemoveFails ==
    /\ phase = "clearing" /\ Under(dest) # {} /\ Stop("Io")
    /\ UNCHANGED <<disk, project, extras, edits, warned, dest, exported, kept, before, exports>>

Moved == LET staging == StagingDirFor(dest)
         IN  [p \in {IF IsPrefix(staging, q) THEN SubSeq(q, 2, Len(q)) ELSE q : q \in DOMAIN disk} |->
                 IF IsPrefix(dest, p) THEN disk[<<"tmp-bundle">> \o p] ELSE disk[p]]

\* rename moves the whole directory at once.
Rename ==
    /\ phase = "clearing" /\ Under(dest) = {} /\ Stop("Ok") /\ disk' = Moved
    /\ UNCHANGED <<project, extras, edits, warned, dest, exported, kept, before, exports>>

RenameFails ==
    /\ phase = "clearing" /\ Under(dest) = {} /\ Stop("SwapFailed")
    /\ disk' = Only(DOMAIN disk \ Under(StagingDirFor(dest)))
    /\ UNCHANGED <<project, extras, edits, warned, dest, exported, kept, before, exports>>

\* The process dies; the next one starts without a project.
Crash ==
    /\ phase \in Exporting /\ phase' = "idle" /\ jobs' = <<>>
    /\ project' = {} /\ answer' = "none"
    /\ UNCHANGED <<disk, extras, edits, warned, dest, exported, kept, before, exports>>

Step == WriteNext \/ WriteFails \/ Written \/ (\E p \in Under(dest) : RemoveOld(p)) \/ RemoveFails
        \/ Rename \/ RenameFails

Next ==
    \/ \E p \in Presets : Import(p)
    \/ \E pass \in NewPasses : AppendPass(pass)
    \/ \E s \in NewSettings : SetPassSettings(s)
    \/ \E d \in Dests, threaded \in BOOLEAN : Export(d, threaded)
    \/ Step
    \/ Crash

\* An export runs to its end in the command's own thread.
Spec == Init /\ [][Next]_vars

-----------------------------------------------------------------------------
TypeOK ==
    /\ phase \in {"idle"} \cup Exporting /\ answer \in Answers
    /\ edits \in 0..MaxEdits /\ exports \in 0..MaxExports
    /\ Cardinality(project) <= 1 /\ (phase \in Exporting => exported = project)
    /\ (phase # "writing" => jobs = <<>>)
    /\ \A k \in DOMAIN jobs : jobs[k].op \in {"write", "copy"}
    /\ dest \in Dests \cup {<<>>}

Done == phase = "idle" /\ answer = "Ok"
Preset(dir) == dir \o <<"preset", ".slangp">>

Exported == CHOOSE p \in exported : TRUE

\* No parameter has the name of a key of the preset: a pass setting left over for
\* a pass the preset does not have, or a look-up texture.
ParametersAreNotKeys(p) ==
    \A k \in DOMAIN p.parameters : ~ IsStructuralKey(p.parameters[k].name, Len(p.passes), p.luts)

\* Importing the bundle an export answered Ok for gives back every pass with its
\* settings and source, the parameters at their values and the look-up textures,
\* and for an unedited project the whole of compare_projects (roundtrip.rs:100).
ReadsBack ==
    /\ CanImport(disk, Preset(dest))
    /\ \E q \in {ImportPreset(disk, Preset(dest))} :
          /\ ComparePasses(Exported, q) /\ CompareLuts(Exported.luts, q.luts)
          /\ {[name |-> p.name, default |-> p.default] : p \in ToSet(Exported.parameters)}
                \subseteq {[name |-> p.name, default |-> p.default] : p \in ToSet(q.parameters)}
          /\ edits = 0 => CompareProjects(Exported, q)

\* Aliases and unknown keys are written without quotes.  These words come back: no
\* comment mark, no quote, no blank at an end.
IsBare(words) == \A k \in DOMAIN words : words[k] \notin {"#", "//", "quote", "blank"}
AliasesAreBare(p) == \A k \in DOMAIN p.passes : \A a \in p.passes[k].settings.alias : IsBare(a)

ExportedBundleReadsBack == Done /\ ParametersAreNotKeys(Exported) /\ AliasesAreBare(Exported) => ReadsBack

\* The same for every project.  A preset with fewer passes than its keys are for
\* turns scale1 into a parameter (slangp.rs:490); a pass appended in the editor
\* then finds that key in the bundle.
EveryExportedBundleReadsBack == Done /\ AliasesAreBare(Exported) => ReadsBack

\* The unknown keys given back to an export are in the bundle (export.rs:28-30),
\* each with the value it had, when that value reads without quotes as with them.
KeysComeBack(given(_)) ==
    Done /\ kept /\ ParametersAreNotKeys(Exported) =>
        \A key \in DOMAIN extras : key \in DOMAIN MapAt(disk, Preset(dest))
            /\ (given(extras[key]) => MapAt(disk, Preset(dest))[key] = extras[key])

ExtrasComeBack == KeysComeBack(IsBare)

\* The same for every value.  One that was in quotes for its comment mark is cut
\* at the mark when the bundle is read, an alias as an unknown key (export.rs:437, 407).
EveryValueComesBack ==
    /\ Done /\ ParametersAreNotKeys(Exported) => ReadsBack
    /\ KeysComeBack(LAMBDA value : TRUE)

\* A bundle holds every file its preset names: a source for each pass, an image
\* for each look-up texture or a warning that it could not be copied.
BundleIsSelfContained ==
    Done => \E preset \in {ParseSlangp(MapAt(disk, Preset(dest)), dest)} :
        /\ \A k \in DOMAIN preset.passes : preset.passes[k].shader \in Under(dest)
        /\ Cardinality({preset.passes[k].shader : k \in DOMAIN preset.passes}) = Len(preset.passes)
        /\ \A k \in DOMAIN preset.luts :
              preset.luts[k].path \in Under(dest) \/ StagingDirFor(preset.luts[k].path) \in warned

\* A bundle read back is the project exported, with its unknown keys and its files.
BundleRoundTrips == TypeOK /\ ExportedBundleReadsBack /\ ExtrasComeBack /\ BundleIsSelfContained

\* The destination holds what it held before, or the new bundle is complete
\* beside it or in its place, whatever failed and whenever the process died; only
\* a failed rename, which removes the new bundle too, is left out (export.rs:127).
NewBundle == {job.path : job \in {j \in ToSet(WriteBundle(Exported, <<>>, NoFiles)) : j.op = "write"}}
Whole(dir) == \A p \in NewBundle : dir \o p \in DOMAIN disk

SomeBundleSurvives ==
    exported # {} /\ answer # "SwapFailed" =>
        FilesUnder(dest) = before \/ Whole(StagingDirFor(dest)) \/ Whole(dest)

\* No alias and no look-up texture is called Source or Original.
NamesAreTheirOwn(p) ==
    /\ \A b \in ToSet(p.aliases) : Len(b.alias) = 1 /\ b.alias[1] \notin {"Source", "Original"}
    /\ \A k \in DOMAIN p.luts : p.luts[k].name \notin {"Source", "Original"}

\* A reference the importer warns about is one the pass cannot have, by the list
\* of what each pass may read, which other code computes (import.rs:330, 382).
Normal(name) == IF Len(name) = 2 /\ name[1] = "Pass" THEN <<"PassOutput", name[2]>> ELSE name

WarningsMatch(p) ==
    \A i \in DOMAIN p.passes : \A r \in p.passes[i].references :
        r.kind \in {"PassOutput", "Alias"} =>
            (<<i, r.name>> \in p.warnings <=> Normal(r.name) \notin p.availability[i])

\* The importer's scan of a source and the renderer's binding table read a
\* texture name the same way (scan.rs:54, bindtable.rs:97).
SameReading(kind, class) ==
    CASE kind = "PassOutput" -> class = "PassOutput"
      [] kind = "Alias" -> class \in {"Alias", "Lut"}
      [] kind = "Feedback" -> class \in {"PassFeedback", "AliasFeedback"}
      [] kind = "History" -> class \in {"OriginalHistory", "Original"}
      [] kind = "User" -> class = "Lut"
      [] OTHER -> class = kind

\* The scan goes by the aliases of the import (WholePassEditor.tsx:36), the binding
\* table by those the passes have now (preview.rs:479).
ScannedNames(p) == {b.alias[1] : b \in ToSet(p.aliases)}
BoundNames(p) == {a[1] : a \in {b \in UNION {pass.settings.alias : pass \in ToSet(p.passes)} : Len(b) = 1}}

AsScanned(p, r) == SameReading(r.kind, Textures!Classify(r.name, BoundNames(p))[1])

\* No edit has given or taken the alias that the reference names.
Named(r, names) == {a \in names : r.name \in {<<a>>, <<a, "Feedback">>}}
AliasIsKept(p, r) == Named(r, ScannedNames(p)) = Named(r, BoundNames(p))

ScannerAgrees(p) ==
    \A i \in DOMAIN p.passes : \A r \in p.passes[i].references : AliasIsKept(p, r) => AsScanned(p, r)

\* What an import says of a pass's references is what the renderer will find.  The
\* warnings are of the import; the scan is kept while the project is edited, and
\* holds for every reference but one whose own alias was edited.
Explained(p) == (edits = 0 => WarningsMatch(p)) /\ ScannerAgrees(p)
ReferencesAreExplained == \A p \in project : NamesAreTheirOwn(p) => Explained(p)

\* The same for every name.  An alias Source is the alias to the scan, and is warned
\* about up to its own pass; the binding table takes the built-in name
\* first (scan.rs:62, bindtable.rs:99).
EveryReferenceIsExplained == \A p \in project : Explained(p)

\* The same after every edit.  A pass that loses the alias Glow leaves Glow and
\* GlowFeedback an alias and a feedback to the scan, look-up textures to the
\* binding table: no edit of an alias reaches the list of the import.
EditedAliasesAreExplained ==
    \A p \in project : NamesAreTheirOwn(p) =>
        \A i \in DOMAIN p.passes : \A r \in p.passes[i].references : AsScanned(p, r)

\* Loading a preset into the preview leaves nothing of the one before it: no
\* texture, no pass, no value of a parameter (load_preset, preview.rs:375).
Loadable == {path \in DOMAIN disk : Last(path) = ".slangp"}

\* What is on disk is looked at before anything is done and after each bundle.
DiskIsNew == phase = "idle" /\ (answer = "Ok" \/ (project = {} /\ exports = 0))

LoadReplacesTheLastPreset ==
    DiskIsNew => \E loads \in {UNION {LoadPreset(disk, path) : path \in Loadable}} :
        \A load, last \in loads : Drained(Fresh, last \o load) = Drained(Fresh, load)

\* The editor previews an imported preset with the passes load_preset gives the
\* engine, computed by other code from the project's settings (preview.rs:471),
\* as long as sizes are whole and no source includes another.
WholeSizes(chain) ==
    \A k \in DOMAIN chain : \A s \in chain[k].scale : \A axis \in {s.x, s.y} :
        axis.type = "absolute" => Trunc(axis.factor) = axis.factor
SelfContained(passes) == \A k \in DOMAIN passes : ~ SourceHasInclude(passes[k].source)

EditorChains(path, condition(_)) ==
    \A load \in LoadPreset(disk, path) : \A chain \in {Drained(Fresh, load).chain} :
        \E imported \in {ImportPreset(disk, path)} :
            condition(chain) /\ SelfContained(imported.passes) =>
                \E edit \in LoadChainSources(imported.passes) : Drained(Fresh, edit).chain = chain

EditorPreviewsThePreset == DiskIsNew => \A path \in Loadable : EditorChains(path, WholeSizes)

\* A preset is previewed as it is, alone, from the file and from the editor.
PreviewTakesThePreset == LoadReplacesTheLastPreset /\ EditorPreviewsThePreset

\* The same for every size.  A half pixel is rounded by the engine and cut by
\* the importer (pass.rs:87, import.rs:469).
EditorPreviewsEveryPreset ==
    DiskIsNew => \A path \in Loadable : EditorChains(path, LAMBDA chain : TRUE)
=============================================================================
