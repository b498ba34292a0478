---------------------------- MODULE CommandLine ----------------------------
(***************************************************************************)
(* The command line of noydb (packages/create-noy-db): the wizard, which  *)
(* makes a new Nuxt project or adds noydb to the one it is started in,    *)
(* `noy-db add', which writes a store and a page, and the commands that   *)
(* open a vault: rotate, backup, add user and verify.  The user works on  *)
(* the same files with an editor.                                         *)
(*                                                                         *)
(* A step is the code between two awaits; a command may end at any of     *)
(* them, because a call fails or the process is killed.                   *)
(***************************************************************************)
EXTENDS Naturals, FiniteSets

CONSTANTS
    Template,      \* files of the template nuxt-default
    MaxRuns,       \* bound: commands
    MaxEdits,      \* bound: what the user does between them
    MaxCuts,       \* bound: commands that are cut short
    Allowed        \* which of Behaviours the environment shows

Behaviours == {"midEdit",     \* the user edits while a command runs
               "diverges",    \* the round trip of verify fails
               "configCut"}   \* the wizard is cut short while it writes nuxt.config

\* nuxt.config: an object whose modules are an array or missing, or else something that is
\* not looked into; its modules and its noydb key; the user's last edit.
Configs(n) ==
    [shape : {"object"}, modules : {"plain", "ours"}, noydb : {"none", "memory"}, edit : {n}]
    \cup [shape : {"opaque"}, modules : {"plain"}, noydb : {"none"}, edit : {n}]
TornConfig == [shape |-> "torn", modules |-> "plain", noydb |-> "none", edit |-> 0]
NoConfig   == [shape |-> "none", modules |-> "plain", noydb |-> "none", edit |-> 0]

VARIABLES
    config,    \* nuxt.config of the directory the commands run in
    deps,      \* what its package.json says of nuxt: "none", "broken", "nuxt"
    dir,       \* the new project's directory: each file is "none", "template" or "user"
    code,      \* app/stores/<name>.ts and app/pages/<name>.vue: "none", "made" or "user"
    vault,     \* the vault on disk: key epoch and users
    copy,      \* the backup file: the epoch and users it holds, epoch 0 for none
    cmd,       \* the running command
    told,      \* what the last command returned, and the disk before it
    open,      \* Noydb instances the commands have left open
    runs, edits, cuts

disk == [config |-> config, dir |-> dir, code |-> code, vault |-> vault, copy |-> copy]
files == <<config, dir, code>>
data  == <<vault, copy>>
counts == <<runs, edits, cuts>>
vars == <<files, deps, data, cmd, told, open, counts>>

Idle == [kind |-> "none", pc |-> "idle", yes |-> FALSE, dryRun |-> FALSE, adapter |-> "browser",
         todo |-> {}, was |-> NoConfig, new |-> NoConfig]
Untold == [said |-> "nothing", before |-> NoConfig]

Init ==
    /\ config = NoConfig /\ deps \in {"none", "broken", "nuxt"}
    /\ dir = [f \in Template \cup {"other"} |-> "none"]
    /\ code = [store |-> "none", page |-> "none"]
    /\ vault \in [epoch : {1}, users : {{"owner"}}, collections : BOOLEAN]
    /\ copy = [epoch |-> 0, users |-> {}]
    /\ cmd = Idle /\ told = Untold /\ open = 0
    /\ runs = 0 /\ edits = 0 /\ cuts = 0

Goto(pc) == cmd' = [cmd EXCEPT !.pc = pc]
Return(said) == cmd' = Idle /\ told' = [told EXCEPT !.said = said]

-----------------------------------------------------------------------------
\* The user: writes, deletes, and edits the configuration.
MayEdit == edits < MaxEdits /\ (cmd.pc = "idle" \/ "midEdit" \in Allowed)
Edited == edits' = edits + 1 /\ told' = (IF cmd.pc = "idle" THEN Untold ELSE told)

UserWrites ==
    /\ MayEdit /\ Edited
    /\ \/ \E f \in DOMAIN dir : dir' = [dir EXCEPT ![f] = "user"] /\ UNCHANGED <<config, code>>
       \/ \E f \in DOMAIN code : code' = [code EXCEPT ![f] = "user"] /\ UNCHANGED <<config, dir>>
       \/ \E c \in Configs(edits + 1) : config' = c /\ UNCHANGED <<dir, code>>
    /\ UNCHANGED <<deps, data, cmd, open, runs, cuts>>

UserDeletes ==
    /\ MayEdit /\ Edited
    /\ dir' = [f \in DOMAIN dir |-> "none"] /\ code' = [f \in DOMAIN code |-> "none"]
    /\ UNCHANGED <<config, deps, data, cmd, open, runs, cuts>>

-----------------------------------------------------------------------------
Begin(c) ==
    /\ cmd.pc = "idle" /\ runs < MaxRuns
    /\ runs' = runs + 1
    /\ cmd' = c
    /\ told' = [said |-> "nothing", before |-> disk]
    /\ UNCHANGED <<files, deps, data, open, edits, cuts>>

\* runWizard: an existing Nuxt project is augmented, anything else is a fresh start.
Existing == config.shape # "none" /\ deps = "nuxt"
Detect(yes, dryRun, forceFresh) ==
    Begin([Idle EXCEPT !.kind = IF Existing /\ ~forceFresh THEN "augment" ELSE "fresh",
                       !.yes = yes, !.dryRun = dryRun, !.pc = IF yes THEN "go" ELSE "ask"])

\* The prompts: the user answers, or cancels and the process exits.
Answer(adapter) ==
    /\ cmd.pc = "ask"
    /\ cmd' = [cmd EXCEPT !.pc = "go", !.adapter = adapter]
    /\ UNCHANGED <<files, deps, data, told, open, counts>>
Cancel ==
    /\ cmd.pc = "ask"
    /\ Return("cancelled")
    /\ UNCHANGED <<files, deps, data, open, counts>>

Writable == \A f \in DOMAIN dir : dir[f] = "none"

\* assertWritableTarget, then the template, one file after the other.
FreshCheck ==
    /\ cmd.kind = "fresh" /\ cmd.pc = "go"
    /\ IF Writable THEN cmd' = [cmd EXCEPT !.pc = "render", !.todo = Template] /\ UNCHANGED told
                   ELSE Return("refused")
    /\ UNCHANGED <<files, deps, data, open, counts>>

Render(f) ==
    /\ cmd.pc = "render" /\ f \in cmd.todo
    /\ dir' = [dir EXCEPT ![f] = "template"]
    /\ IF cmd.todo = {f} THEN Return("fresh")
       ELSE cmd' = [cmd EXCEPT !.todo = @ \ {f}] /\ UNCHANGED told
    /\ UNCHANGED <<config, code, deps, data, open, counts>>

\* augmentNuxtConfig reads the configuration and works out the new one.
Supported == config.shape = "object"
Configured(c) == c.modules = "ours" /\ c.noydb # "none"
\* (Variant for the runs: the key is written whether or not there is one.)
AugmentedAnew(c, adapter) == [c EXCEPT !.modules = "ours", !.noydb = adapter]
Augmented(c, adapter) ==
    [c EXCEPT !.modules = "ours", !.noydb = IF @ = "none" THEN adapter ELSE @]

AugmentRead ==
    /\ cmd.kind = "augment" /\ cmd.pc = "go"
    /\ IF ~Supported THEN Return("unsupported-shape")
       ELSE IF Configured(config) THEN Return("already-configured")
       ELSE IF cmd.dryRun THEN Return("dry-run")
       ELSE /\ cmd' = [cmd EXCEPT !.pc = IF cmd.yes THEN "write" ELSE "confirm",
                                  !.new = Augmented(config, cmd.adapter)]
            /\ UNCHANGED told
    /\ UNCHANGED <<files, deps, data, open, counts>>

Confirm(ok) ==
    /\ cmd.pc = "confirm"
    /\ IF ok THEN Goto("write") /\ UNCHANGED told ELSE Return("cancelled")
    /\ UNCHANGED <<files, deps, data, open, counts>>

\* fs.writeFile empties the file before it fills it.
EmptyConfig ==
    /\ cmd.kind = "augment" /\ cmd.pc = "write"
    /\ config' = TornConfig
    /\ cmd' = [cmd EXCEPT !.pc = "fillConfig", !.was = config]
    /\ UNCHANGED <<dir, code, deps, data, told, open, counts>>
WriteConfig ==
    /\ cmd.pc = "fillConfig"
    /\ config' = cmd.new
    /\ Return("written")
    /\ UNCHANGED <<dir, code, deps, data, open, counts>>

-----------------------------------------------------------------------------
\* noy-db add: both files are looked for before either is written.
Add == Begin([Idle EXCEPT !.kind = "add", !.pc = "store?"])

AddCheck(f, next) ==
    /\ cmd.pc = f
    /\ LET part == IF f = "store?" THEN "store" ELSE "page"
       IN  IF code[part] # "none" THEN Return("refused") ELSE Goto(next) /\ UNCHANGED told
    /\ UNCHANGED <<files, deps, data, open, counts>>

AddWrite(f) ==
    /\ cmd.pc = f
    /\ code' = [code EXCEPT ![f] = "made"]
    /\ IF f = "page" THEN Return("added") ELSE Goto("page") /\ UNCHANGED told
    /\ UNCHANGED <<config, dir, deps, data, open, counts>>

-----------------------------------------------------------------------------
\* The commands on a vault ask for passphrases first and close what they open.
Session(kind) ==
    Begin([Idle EXCEPT !.kind = kind, !.pc = IF kind = "verify" THEN "go" ELSE "ask"])
OnVault == cmd.kind \in {"rotate", "backup", "addUser", "verify"}

\* add user: the two new passphrases differ.
Mismatch ==
    /\ cmd.kind = "addUser" /\ cmd.pc = "go"
    /\ Return("refused")
    /\ UNCHANGED <<files, deps, data, open, counts>>

Open ==
    /\ OnVault /\ cmd.pc = "go"
    /\ open' = open + 1
    /\ Goto("act")
    /\ UNCHANGED <<files, deps, data, told, counts>>

Closes(said) == cmd.kind = "verify" => said = "passed"
End(said) ==
    /\ Return(said)
    /\ open' = IF Closes(said) THEN open - 1 ELSE open

Rotate ==
    /\ cmd.kind = "rotate" /\ cmd.pc = "act"
    /\ IF vault.collections
       THEN vault' = [vault EXCEPT !.epoch = @ + 1] /\ End("rotated")
       ELSE UNCHANGED vault /\ End("refused")
    /\ UNCHANGED <<files, deps, copy, counts>>

Grant ==
    /\ cmd.kind = "addUser" /\ cmd.pc = "act"
    /\ vault' = [vault EXCEPT !.users = @ \cup {"new"}]
    /\ End("granted")
    /\ UNCHANGED <<files, deps, copy, counts>>

\* backup: the dump, then fs.writeFile.
Dump ==
    /\ cmd.kind = "backup" /\ cmd.pc = "act"
    /\ copy' = [epoch |-> 0, users |-> {"torn"}]
    /\ Goto("fill")
    /\ UNCHANGED <<files, deps, vault, told, open, counts>>
Fill ==
    /\ cmd.pc = "fill"
    /\ copy' = [epoch |-> vault.epoch, users |-> vault.users]
    /\ End("saved")
    /\ UNCHANGED <<files, deps, vault, counts>>

\* verify: a throwaway vault in memory; a round trip that differs returns at once.
Verify(ok) ==
    /\ cmd.kind = "verify" /\ cmd.pc = "act"
    /\ ok \/ "diverges" \in Allowed
    /\ End(IF ok THEN "passed" ELSE "diverged")
    /\ UNCHANGED <<files, deps, data, counts>>

\* A call of the command fails and the error ends it; `finally' closes the
\* instance, but verify has none.
Fail ==
    /\ cmd.pc \notin {"idle", "ask"} /\ cuts < MaxCuts
    /\ cmd.kind = "verify" => "diverges" \in Allowed
    /\ cmd.pc = "fillConfig" => "configCut" \in Allowed
    /\ cuts' = cuts + 1
    /\ IF open > 0 THEN End("failed") ELSE Return("failed") /\ UNCHANGED open
    /\ UNCHANGED <<files, deps, data, runs, edits>>

Next ==
    \/ UserWrites \/ UserDeletes
    \/ \E yes, dryRun, forceFresh \in BOOLEAN : Detect(yes, dryRun, forceFresh)
    \/ \E adapter \in {"memory", "browser"} : Answer(adapter)
    \/ Cancel \/ FreshCheck \/ AugmentRead \/ EmptyConfig \/ WriteConfig
    \/ \E f \in Template : Render(f)
    \/ \E ok \in BOOLEAN : Confirm(ok)
    \/ Add \/ AddCheck("store?", "page?") \/ AddCheck("page?", "store")
    \/ \E f \in {"store", "page"} : AddWrite(f)
    \/ \E kind \in {"rotate", "backup", "addUser", "verify"} : Session(kind)
    \/ Mismatch \/ Open \/ Rotate \/ Grant \/ Dump \/ Fill
    \/ \E ok \in BOOLEAN : Verify(ok)
    \/ Fail

Spec == Init /\ [][Next]_vars

-----------------------------------------------------------------------------
\* Neither mode of the wizard and no command destroys what the user has
\* written: files stay as they are, and the configuration, whenever it is not
\* being written, has every edit and a noydb key the user has set.
Kept(before, after) == after.edit = before.edit /\ (before.noydb # "none" => after.noydb = before.noydb)
UserWorkKept ==
    [][edits' = edits =>
          /\ \A f \in DOMAIN dir : dir[f] = "user" => dir'[f] = "user"
          /\ \A f \in DOMAIN code : code[f] = "user" => code'[f] = "user"
          /\ cmd.pc = "fillConfig" \/ cmd'.pc = "fillConfig" \/ Kept(config, config')
          /\ cmd.pc = "fillConfig" /\ cmd'.pc # "fillConfig" => Kept(cmd.was, config')]_vars

\* What a command says is so: after a refusal, a cancelled prompt, a dry run and
\* an unsupported configuration nothing on the disk has changed, and success
\* means all of it has been written.
ReportsAreTrue ==
    /\ told.said \in {"refused", "cancelled", "dry-run", "unsupported-shape",
                      "already-configured", "passed"} => told.before = disk
    /\ told.said \in {"written", "already-configured"} =>
          config.modules = "ours" /\ config.noydb # "none"
    /\ told.said = "fresh" => \A f \in DOMAIN dir : dir[f] = (IF f \in Template THEN "template" ELSE "none")
    /\ told.said = "added" => code = [store |-> "made", page |-> "made"]
    /\ told.said = "saved" => copy.epoch = vault.epoch /\ copy.users = vault.users

\* A command that has ended has no Noydb instance, and so no key, left open.
NothingLeftOpen == cmd.pc = "idle" => open = 0

\* The commands keep their word: the user's work stays, and what they report is so.
CommandsHonest == UserWorkKept /\ [](ReportsAreTrue /\ NothingLeftOpen)

\* add: a partial write is impossible, either both files land or neither does.
BothOrNeither == told.said = "failed" /\ told.before # NoConfig =>
    (code.store = "made" /\ told.before.code.store = "none" => code.page = "made")

\* A backup that fails leaves the backup file of an earlier run whole.
BackupKept == told.said = "failed" /\ told.before # NoConfig =>
    (told.before.copy.epoch > 0 => copy.epoch > 0)
=============================================================================
