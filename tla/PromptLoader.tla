---------------------------- MODULE PromptLoader ----------------------------
(***************************************************************************)
(* prompts/prompt_loader.py: get_system_prompt keeps the text of           *)
(* config/system_prompt.md with the modification time it was read under    *)
(* and reads the file again when the time differs, while the developer     *)
(* saves, empties or removes the file.                                     *)
(*                                                                         *)
(* Every save has a modification time of its own; 0 stands for the 0.0 the *)
(* code uses when it has no time.  The file is UTF-8.                      *)
(***************************************************************************)
EXTENDS Naturals

CONSTANTS
    Prompts,        \* texts of the file that are not blank
    Blank,          \* a text that is empty after strip()
    DefaultPrompt,  \* _DEFAULT_PROMPT
    Missing,        \* no file, no cache entry
    MaxSaves        \* bound on the saves

ASSUME PromptAssumption ==
    /\ {Blank, DefaultPrompt, Missing} \cap Prompts = {}
    /\ Blank # Missing /\ Blank # DefaultPrompt /\ DefaultPrompt # Missing
    /\ MaxSaves \in Nat

VARIABLES
    saves,    \* number of saves so far: the modification time of the last
    prompt,   \* the file: [text, mtime], or Missing
    loaded,   \* _cache: [text, mtime], or Missing
    lookup,   \* where get_system_prompt is
    seen      \* current_mtime

promptVars == <<saves, prompt, loaded, lookup, seen>>

File == [text : Prompts \cup {Blank}, mtime : Nat]
Loaded == [text : Prompts \cup {DefaultPrompt}, mtime : Nat]

PromptTypeOK ==
    /\ saves \in Nat
    /\ prompt \in File \cup {Missing}
    /\ loaded \in Loaded \cup {Missing}
    /\ lookup \in {"idle", "stat", "read"}
    /\ seen \in Nat

PromptInit ==
    /\ saves = 1
    /\ prompt \in [text : Prompts, mtime : {1}] \cup {Missing}
    /\ loaded = Missing
    /\ lookup = "idle"
    /\ seen = 0

-----------------------------------------------------------------------------
SavePrompt(x) ==
    /\ saves < MaxSaves
    /\ saves' = saves + 1
    /\ prompt' = [text |-> x, mtime |-> saves']
    /\ UNCHANGED <<loaded, lookup, seen>>

RemovePrompt ==
    /\ prompt # Missing
    /\ prompt' = Missing
    /\ UNCHANGED <<saves, loaded, lookup, seen>>

-----------------------------------------------------------------------------
UseDefault ==
    /\ loaded' = [text |-> DefaultPrompt, mtime |-> 0]
    /\ lookup' = "idle"

\* is_file()
LookForFile ==
    /\ lookup = "idle"
    /\ IF prompt # Missing
       THEN lookup' = "stat" /\ UNCHANGED loaded
       ELSE UseDefault
    /\ UNCHANGED <<saves, prompt, seen>>

\* stat().st_mtime, or 0.0 when the file is gone; then the cache is asked.
StatFile ==
    /\ lookup = "stat"
    /\ seen' = IF prompt = Missing THEN 0 ELSE prompt.mtime
    /\ lookup' = IF loaded # Missing /\ loaded.mtime = seen'
                 THEN "idle" ELSE "read"
    /\ UNCHANGED <<saves, prompt, loaded>>

\* Fault: the default is kept under the time of the file that was blank.
ReadFile_KeepTime ==
    /\ lookup = "read"
    /\ IF prompt = Missing \/ prompt.text = Blank
       THEN loaded' = [text |-> DefaultPrompt, mtime |-> seen]
       ELSE loaded' = [text |-> prompt.text, mtime |-> seen]
    /\ lookup' = "idle"
    /\ UNCHANGED <<saves, prompt, seen>>

\* read_text().strip(): a file that is gone or blank gives the default.
ReadFile ==
    /\ lookup = "read"
    /\ IF prompt = Missing \/ prompt.text = Blank
       THEN UseDefault
       ELSE /\ loaded' = [text |-> prompt.text, mtime |-> seen]
            /\ lookup' = "idle"
    /\ UNCHANGED <<saves, prompt, seen>>

PromptEnvironment ==
    (\E x \in Prompts \cup {Blank} : SavePrompt(x)) \/ RemovePrompt

-----------------------------------------------------------------------------
\* Hot reload misses no change: a cache entry that the next call would serve,
\* because its time is the file's, holds the file's text.  The developer may
\* save, empty or remove the file between is_file, stat and read_text.
PromptIsCurrent ==
    prompt # Missing /\ loaded # Missing /\ loaded.mtime = prompt.mtime
        => loaded.text = prompt.text
=============================================================================
