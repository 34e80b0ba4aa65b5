------------------------------ MODULE Scaffold ------------------------------
(***************************************************************************)
(* `oac init` over a directory a developer keeps editing (scaffold/engine, *)
(* scaffold/manifest, scaffold/config), and the skill bundles it and       *)
(* `oac sync-skills` install there (skills/emitters).                        *)
(*                                                                         *)
(* A generated text is a number, a text of the developer's a model value,  *)
(* a hash the text itself.  One file stands for each group of files that a *)
(* configuration switches on together, "registry" for the one that two     *)
(* templates generate differently.                                         *)
(***************************************************************************)
EXTENDS FileStates, Naturals, Sequences, SequencesExt, FiniteSets

CONSTANTS
  Configs,    \* [template, switches] an init may be given
  Texts,      \* what a developer writes
  Touched,    \* the files he writes or deletes
  Dialects,   \* of the skills, "claude" with its index
  Versions,   \* of the package: Text[v][file], of the personalized registry and of the skill
  Text,
  MaxInits, MaxEdits, MaxDeaths

ASSUME ScaffoldAssumption ==
  /\ {MaxInits, MaxEdits, MaxDeaths} \subseteq Nat
  /\ 1 \in Versions /\ Versions \subseteq Nat /\ None \notin Versions

VARIABLES
  disk,       \* file -> text, None or Torn
  manifest,   \* .oac/scaffold-state.json: [is, hashes], is None, Torn or "whole", hashes from files
  bundles,    \* dialect -> [body, sidecar] of the bundle
  claudeMd,   \* CLAUDE.md
  version,    \* of the installed package
  init,       \* the `oac` command that runs
  used,       \* inits, edits and deaths so far
  left,       \* history: what each file held when the manifest was last written
  regular,    \* history: the configurations of which it holds that every init had it, was forced
              \* and completed, and that no file was touched but by inits
  torn        \* history: an emission that rewrites what is installed died

scaffold == <<disk, manifest, bundles, claudeMd, version, init, used, left, regular, torn>>

---------------------------------------------------------------------------
(* ScaffoldConfig: "full" implies postgres, overwriting everything implies *)
(* overwriting what is the framework's, so that o, what an init may        *)
(* overwrite, has three values.                                            *)

HasWebApp(c)  == c.template \in {"web", "full", "saas-personalized"}
Postgres(c)   == "postgres" \in c.switches \/ c.template = "full"
Overwriting   == {"nothing", "framework", "all"}
Forced(o)     == o # "nothing"

Groups == <<"core", "registry", "improve", "web", "telegram", "cron", "sqlite", "db", "runs", "mcp", "personalized">>

FileMap(c) ==
  {"core", "registry", "improve"}
  \cup (IF HasWebApp(c) THEN {"web"} ELSE {})
  \cup (IF HasWebApp(c) /\ ("telegram" \in c.switches \/ c.template = "full") THEN {"telegram"} ELSE {})
  \cup (IF Postgres(c) THEN {"db"} ELSE {})
  \cup (IF Postgres(c) /\ HasWebApp(c) THEN {"runs"} ELSE {})
  \cup (IF HasWebApp(c) /\ "mcp" \in c.switches THEN {"mcp"} ELSE {})
  \cup (c.switches \cap {"cron", "sqlite"})
  \cup (IF c.template = "saas-personalized" THEN {"personalized"} ELSE {})

(* The later of two generators of one path wins.                           *)
Generated(c, f, v) ==
  IF f = "registry" /\ c.template = "saas-personalized" THEN Text[v]["fleet"] ELSE Text[v]["file"]

(* Files are visited in this order.                                        *)
First(f, todo) == \A i, j \in DOMAIN Groups : Groups[i] = f /\ Groups[j] \in todo => i <= j

---------------------------------------------------------------------------
(* The manifest. *)

(* A manifest that does not parse counts as none. *)
Recorded(m, f) == IF f \in DOMAIN m.hashes THEN m.hashes[f] ELSE None

(* Mutant: a file the manifest does not know is the framework's. *)
Classify_NoOrphans(f, text, m) ==
  IF disk[f] = None THEN "fresh" ELSE IF disk[f] = text THEN "unchanged"
  ELSE IF Recorded(m, f) \in {None, disk[f]} THEN "framework" ELSE "user"

Classify(f, text, m) ==
  IF disk[f] = None THEN "fresh"
  ELSE IF disk[f] = text THEN "unchanged"
  ELSE IF Recorded(m, f) = None THEN "orphan"
  ELSE IF Recorded(m, f) = disk[f] THEN "framework" ELSE "user"

(* Whether a file of a class is written. *)
Writes(class, o) ==
  \/ class = "fresh"
  \/ class = "framework" /\ Forced(o)
  \/ class \in {"user", "orphan"} /\ o = "all"

---------------------------------------------------------------------------
NoInit == [pc |-> "idle"]

ScaffoldInit ==
  /\ disk \in [ToSet(Groups) -> {None}] /\ manifest = [is |-> None, hashes |-> <<>>]
  /\ bundles = [d \in Dialects |-> [body |-> None, sidecar |-> None]] /\ claudeMd = None
  /\ version = 1 /\ init = NoInit
  /\ used = [inits |-> 0, edits |-> 0, deaths |-> 0]
  /\ left = disk /\ regular = Configs /\ torn = FALSE

Busy == init.pc \notin {"idle", "done", "refused"}

(* The developer writes a file, or deletes it; files he brought along       *)
(* before the first init are his too.                                      *)
EditFile ==
  /\ ~Busy /\ used.edits < MaxEdits /\ used' = [used EXCEPT !.edits = @ + 1]
  /\ regular' = {}
  /\ \/ \E f \in Touched, t \in Texts \cup {None} :
          /\ disk[f] # t /\ disk' = [disk EXCEPT ![f] = t]
          /\ UNCHANGED <<bundles, claudeMd>>
     \/ \E d \in Dialects, t \in Texts :
          /\ bundles[d].body # t /\ bundles' = [bundles EXCEPT ![d].body = t]
          /\ UNCHANGED <<disk, claudeMd>>
     \/ \E t \in Texts : claudeMd # t /\ claudeMd' = t /\ UNCHANGED <<disk, bundles>>
  /\ init' = NoInit
  /\ UNCHANGED <<manifest, version, left, torn>>

Upgrade ==
  /\ ~Busy /\ version + 1 \in Versions /\ version' = version + 1 /\ init' = NoInit
  /\ UNCHANGED <<disk, manifest, bundles, claudeMd, used, left, regular, torn>>

(* A directory with anything in it is refused, unless a manifest tells that *)
(* it is a scaffold or overwriting is on.                                  *)
Refused(o) ==
  /\ ~Forced(o) /\ manifest.is = None
  /\ (\E f \in DOMAIN disk : disk[f] # None) \/ claudeMd # None \/ \E d \in Dialects : bundles[d].body # None

BeginInit ==
  /\ ~Busy /\ used.inits < MaxInits /\ used' = [used EXCEPT !.inits = @ + 1]
  /\ \E c \in Configs, o \in Overwriting, ds \in SUBSET Dialects :
       /\ init' = IF Refused(o) THEN [pc |-> "refused"]
                  ELSE [pc |-> "files", c |-> c, o |-> o, todo |-> FileMap(c), open |-> None, hashes |-> <<>>,
                        previous |-> manifest, skills |-> ds, at |-> disk, was |-> left]
       /\ regular' = IF Forced(o) THEN regular \cap {c} ELSE {}
  /\ UNCHANGED <<disk, manifest, bundles, claudeMd, version, left, torn>>

Note(f, text) == [g \in DOMAIN init.hashes \cup {f} |-> IF g = f THEN text ELSE init.hashes[g]]

(* What the manifest will say of a file that is left alone. *)
Kept(f, class, text) ==
  CASE class = "unchanged"            -> Note(f, text)
    [] class \in {"user", "orphan"}   -> Note(f, disk[f])
    [] OTHER                          -> init.hashes

(* Classify one file, and leave it or open it for writing.                 *)
VisitFile ==
  /\ init.pc = "files"
  /\ \E f \in init.todo :
       LET text  == Generated(init.c, f, version)
           class == Classify(f, text, init.previous)
       IN  /\ First(f, init.todo)
           /\ IF Writes(class, init.o)
              THEN /\ disk' = [disk EXCEPT ![f] = Torn]
                   /\ init' = [init EXCEPT !.pc = "fill", !.open = f]
              ELSE /\ init' = [init EXCEPT !.todo = @ \ {f}, !.hashes = Kept(f, class, text)]
                   /\ UNCHANGED disk
  /\ UNCHANGED <<manifest, bundles, claudeMd, version, used, left, regular, torn>>

FillFile ==
  /\ init.pc = "fill"
  /\ LET f == init.open  text == Generated(init.c, f, version)
     IN  /\ disk' = [disk EXCEPT ![f] = text]
         /\ init' = [init EXCEPT !.pc = "files", !.open = None, !.todo = @ \ {f}, !.hashes = Note(f, text)]
  /\ UNCHANGED <<manifest, bundles, claudeMd, version, used, left, regular, torn>>

(* write_manifest: the entries of files outside the map are dropped.       *)
OpenManifest ==
  /\ init.pc = "files" /\ init.todo = {}
  /\ manifest' = [is |-> Torn, hashes |-> <<>>]
  /\ init' = [init EXCEPT !.pc = "manifest"]
  /\ UNCHANGED <<disk, bundles, claudeMd, version, used, left, regular, torn>>

FillManifest ==
  /\ init.pc = "manifest"
  /\ manifest' = [is |-> "whole", hashes |-> init.hashes]
  /\ init' = [pc |-> "skills", c |-> init.c, o |-> init.o, at |-> init.at, was |-> init.was, skills |-> init.skills, force |-> Forced(init.o), body |-> None, again |-> FALSE]
  /\ left' = disk
  /\ UNCHANGED <<disk, bundles, claudeMd, version, used, regular, torn>>

---------------------------------------------------------------------------
(* Skills: SKILL.md, then the sidecar with its hash. *)

BeginSync ==
  /\ ~Busy /\ used.inits < MaxInits /\ used' = [used EXCEPT !.inits = @ + 1]
  /\ \E force \in BOOLEAN, ds \in SUBSET Dialects :
       init' = [pc |-> "skills", c |-> None, o |-> None, at |-> None, was |-> None, skills |-> ds, force |-> force, body |-> None, again |-> FALSE]
  /\ UNCHANGED <<disk, manifest, bundles, claudeMd, version, left, regular, torn>>

Fresh(d) == bundles[d].sidecar = version

(* Behind its bundles only the claude target has an index. *)
Emitted(d) == IF d = "claude" THEN "index" ELSE "skills"

(* A bundle whose sidecar has the current hash is skipped unless forced.   *)
OpenSkill ==
  /\ init.pc = "skills" /\ init.skills # {}
  /\ \E d \in init.skills :
       IF ~init.force /\ Fresh(d)
       THEN /\ init' = [init EXCEPT !.pc = Emitted(d), !.skills = @ \ {d}]
            /\ UNCHANGED bundles
       ELSE /\ bundles' = [bundles EXCEPT ![d].body = Torn]
            /\ init' = [init EXCEPT !.pc = "body", !.body = d, !.again = Fresh(d)]
  /\ UNCHANGED <<disk, manifest, claudeMd, version, used, left, regular, torn>>

(* Mutant: the sidecar goes first. *)
Body_SidecarFirst(d) == [bundles EXCEPT ![d].sidecar = version]

Body(d) == [bundles EXCEPT ![d].body = version]

FillSkill ==
  /\ init.pc = "body"
  /\ bundles' = Body(init.body)
  /\ init' = [init EXCEPT !.pc = "sidecar"]
  /\ UNCHANGED <<disk, manifest, claudeMd, version, used, left, regular, torn>>

WriteSidecar ==
  /\ init.pc = "sidecar"
  /\ LET d == init.body
     IN  /\ bundles' = [bundles EXCEPT ![d] = [body |-> version, sidecar |-> version]]
         /\ init' = [init EXCEPT !.pc = Emitted(d), !.skills = @ \ {d}, !.body = None]
  /\ UNCHANGED <<disk, manifest, claudeMd, version, used, left, regular, torn>>

(* The claude index is rewritten whatever it held. *)
WriteIndex ==
  /\ init.pc = "index"
  /\ claudeMd' = version
  /\ init' = [init EXCEPT !.pc = "skills"]
  /\ UNCHANGED <<disk, manifest, bundles, version, used, left, regular, torn>>

EndInit ==
  /\ init.pc = "skills" /\ init.skills = {}
  /\ init' = [pc |-> "done", c |-> init.c, o |-> init.o, at |-> init.at, was |-> init.was]
  /\ UNCHANGED <<disk, manifest, bundles, claudeMd, version, used, left, regular, torn>>

DieInit ==
  /\ Busy /\ used.deaths < MaxDeaths /\ used' = [used EXCEPT !.deaths = @ + 1]
  /\ regular' = {}
  /\ torn' = (torn \/ (init.pc \in {"body", "sidecar"} /\ init.again))
  /\ init' = NoInit
  /\ UNCHANGED <<disk, manifest, bundles, claudeMd, version, left>>

ScaffoldNext ==
  \/ EditFile \/ Upgrade \/ BeginInit \/ VisitFile \/ FillFile \/ OpenManifest \/ FillManifest
  \/ BeginSync \/ OpenSkill \/ FillSkill \/ WriteSidecar \/ WriteIndex
  \/ EndInit \/ DieInit

ScaffoldSpec == ScaffoldInit /\ [][ScaffoldNext]_scaffold

---------------------------------------------------------------------------
(* Properties. *)

Done == init.pc = "done" /\ init.c # None

(* The first init after an edit keeps it: without --force-overwrite-all a   *)
(* file gets another content only if it held what it did when a manifest   *)
(* was last written, whatever died since; without any force no file that   *)
(* is there changes; and the manifest then tells the content of every file *)
(* it lists.  A second forced init may not keep it: render has recorded    *)
(* the hash of the edit it preserved (EditsPreserved, below).              *)
LastEditKept ==
  Done =>
    /\ \A f \in DOMAIN disk :
         /\ init.o # "all" /\ init.at[f] \notin {None, init.was[f]} => disk[f] = init.at[f]
         /\ ~Forced(init.o) /\ init.at[f] # None => disk[f] = init.at[f]
    /\ \A f \in DOMAIN manifest.hashes : manifest.hashes[f] = disk[f]

(* As long as every init is forced and completes, and nobody touches a      *)
(* file or changes the configuration, an init leaves every file of its      *)
(* configuration at the text of the installed version.                      *)
ForcedIsCurrent ==
  Done /\ init.c \in regular => \A f \in FileMap(init.c) : disk[f] = Generated(init.c, f, version)

(* A skill whose sidecar has the current hash is the current one, or the    *)
(* developer's, unless a rewrite of an up to date one died half way.        *)
Rewriting(d) == init.pc \in {"body", "sidecar"} /\ init.body = d

FreshIsWhole ==
  \/ torn
  \/ \A d \in Dialects : Fresh(d) => bundles[d].body \in Texts \cup {version} \/ Rewriting(d)

ScaffoldKeepsWord == LastEditKept /\ ForcedIsCurrent /\ FreshIsWhole

(* "user-edited files are PRESERVED" by --force-overwrite (config.py:80-87; *)
(* manifest.py:13-15, "preserve the user's version"): what a developer      *)
(* wrote is gone only after --force-overwrite-all.                          *)
EditsPreserved ==
  Done /\ init.o # "all" => \A f \in DOMAIN disk : init.at[f] \in Texts => disk[f] = init.at[f]
=============================================================================
