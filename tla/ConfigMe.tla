------------------------------ MODULE ConfigMe ------------------------------
(***************************************************************************)
(* The configuration tool of config-me (challenge/src/main.rs): a menu     *)
(* that edits a map from keys to values, some of them encrypted, and that  *)
(* saves it to and loads it from text files of lines "key: value".         *)
(*                                                                         *)
(* What is written is not always what is read back.  A line is split at    *)
(* its first colon, wherever that is; a clear value that looks like an     *)
(* encrypted one is read as such, or dropped; and save() truncates the     *)
(* file before it writes it line by line, in the arbitrary order of a      *)
(* HashMap, so that a failed write leaves a part of it.                    *)
(*                                                                         *)
(* Texts are atoms.  A text is told apart by how the program reads it:     *)
(* ordinary, "E$" and valid hex (HexLike), or "E$" and something else      *)
(* (BadHex).  An encrypted value is represented by the text that it        *)
(* decrypts to, or by Unreadable.                                          *)
(***************************************************************************)
EXTENDS Integers, Sequences, FiniteSets

CONSTANTS
    Name,        \* the key "name", which the menu insists on
    PlainKeys,   \* the keys without a colon, Name among them
    ColonKeys,   \* the keys with a colon, as typed
    KeyHead,     \* of a ColonKey: what stands before its first colon
    KeyRest,     \* of a ColonKey and its value: what stands behind the colon
    Texts,       \* the values that are typed with "Encrypt?" no
    Secrets,     \* the values that are typed with "Encrypt?" yes
    HexLike,     \* the texts that read "E$" and an even number of hex digits
    BadHex,      \* the other texts that begin with "E$"
    Decrypted,   \* of a HexLike text: what it decrypts to
    Empty,       \* the empty text
    Junk,        \* a text cut short by a failed write
    Unreadable,  \* no text: a nonce cut short, or not UTF-8
    Files,       \* file names
    ConfigFile   \* the one that is loaded at the start

ASSUME KeysAssumption ==
    /\ Name \in PlainKeys
    /\ PlainKeys \cap ColonKeys = {}
    /\ KeyHead \in [ColonKeys -> PlainKeys]

(* What follows a colon in the key is no hex number once ": value" is      *)
(* appended to it.                                                         *)
ASSUME TextsAssumption ==
    /\ Secrets \cap (Texts \cup HexLike \cup BadHex \cup {Empty, Junk}) = {}
    /\ HexLike \cap BadHex = {}
    /\ {Empty, Junk, Unreadable} \cap (HexLike \cup BadHex) = {}
    /\ \A k \in ColonKeys : KeyRest[k] \notin Secrets \cup HexLike
    /\ DOMAIN Decrypted = HexLike

ASSUME FilesAssumption == ConfigFile \in Files

VARIABLES
    config,  \* Config: the map that is being edited
    files,   \* the lines of every file; a missing file reads as an empty one
    pc,      \* "off": no process, "menu": at a prompt, "save": inside save()
    target,  \* the file that save() writes
    todo     \* the keys that save() has not written yet

vars == <<config, files, pc, target, todo>>

-----------------------------------------------------------------------------
Keys == PlainKeys \cup ColonKeys

(* MaybeEncrypted.                                                         *)
Clear(t) == [enc |-> FALSE, text |-> t]
Encrypted(t) == [enc |-> TRUE, text |-> t]

(* A line of a file; sep is FALSE for one that was cut before its colon.   *)
Line(k, v) == [sep |-> TRUE, key |-> k, enc |-> v.enc, text |-> v.text]
CutLine == [sep |-> FALSE, key |-> Name, enc |-> FALSE, text |-> Empty]

serialize_Decrypted(v) == Clear(v.text)

serialize_NoPrefix(v) == Clear(IF v.enc THEN Junk ELSE v.text)

(* serialize() puts "E$" before an encrypted value and before no other.    *)
serialize(v) == v

Split_LastColon(l) == l

(* splitn(2, ":") of a line: what the key holds from its first colon on    *)
(* becomes part of a clear value.                                          *)
Split(l) ==
    IF l.key \in ColonKeys
    THEN Line(KeyHead[l.key], Clear(KeyRest[l.key]))
    ELSE l

(* deserialize() fails on a value that begins with "E$" and is not hex.    *)
Parses(l) == l.enc \/ l.text \notin BadHex

deserialize(l) ==
    IF ~l.enc /\ l.text \in HexLike
    THEN Encrypted(Decrypted[l.text])
    ELSE [enc |-> l.enc, text |-> l.text]

(* Config::load() gives up at a line without a colon, skips a value that   *)
(* cannot be parsed, and lets the last of several lines for a key win.     *)
Loadable(lines) == \A i \in DOMAIN lines : lines[i].sep

Entries(lines) == {i \in DOMAIN lines : Parses(Split(lines[i]))}

LastEntry(lines, k) ==
    CHOOSE i \in Entries(lines) :
        /\ Split(lines[i]).key = k
        /\ \A j \in Entries(lines) : Split(lines[j]).key = k => j <= i

load(lines) ==
    [k \in {Split(lines[i]).key : i \in Entries(lines)} |->
        deserialize(Split(lines[LastEntry(lines, k)]))]

Put(c, k, v) == [x \in DOMAIN c \cup {k} |-> IF x = k THEN v ELSE c[x]]

NoEntries == [k \in {} |-> Clear(Empty)]

-----------------------------------------------------------------------------
Init ==
    /\ config = NoEntries
    /\ files = [f \in Files |-> <<>>]
    /\ pc = "off"
    /\ target = ConfigFile /\ todo = {}

(* The process ends, and what it had in memory is gone.                    *)
Exit ==
    /\ pc' = "off"
    /\ config' = NoEntries
    /\ todo' = {}
    /\ UNCHANGED target

(* A file is loaded; one that cannot be parsed ends the process.           *)
LoadFrom(f) ==
    /\ UNCHANGED files
    /\ \/ /\ Loadable(files[f])
          /\ config' = load(files[f])
          /\ pc' = "menu"
          /\ UNCHANGED <<target, todo>>
       \/ ~Loadable(files[f]) /\ Exit

Start == pc = "off" /\ LoadFrom(ConfigFile)

Named == Name \in DOMAIN config /\ config[Name].text # Unreadable

(* The loop asks for a name, and takes any, before it shows the menu.      *)
GiveName(t) ==
    /\ pc = "menu" /\ ~Named
    /\ config' = Put(config, Name, Clear(t))
    /\ UNCHANGED <<files, pc, target, todo>>

AtMenu == pc = "menu" /\ Named

Edit(c) == AtMenu /\ config' = c /\ UNCHANGED <<files, pc, target, todo>>

AddClear(k, t) == t # Empty /\ Edit(Put(config, k, Clear(t)))

AddEncrypted(k, t) == Edit(Put(config, k, Encrypted(t)))

Remove(k) == Edit([x \in DOMAIN config \ {k} |-> config[x]])

Load(f) == AtMenu /\ LoadFrom(f)

-----------------------------------------------------------------------------
(* save(): File::create() empties the file, or fails and ends the process. *)
SaveCreates(f) ==
    /\ AtMenu
    /\ files' = [files EXCEPT ![f] = <<>>]
    /\ pc' = "save" /\ target' = f /\ todo' = DOMAIN config
    /\ UNCHANGED config

SaveRefused == AtMenu /\ UNCHANGED files /\ Exit

Written(k) == Append(files[target], Line(k, serialize(config[k])))

SaveWrites(k) ==
    /\ pc = "save" /\ k \in todo
    /\ files' = [files EXCEPT ![target] = Written(k)]
    /\ todo' = todo \ {k}
    /\ UNCHANGED <<config, pc, target>>

(* What is left of a value that was cut: the first digits of an encrypted  *)
(* one, or of a text like it, may still be read as an encrypted value.     *)
Cut(v) ==
    {Clear(Junk)} \cup
    IF v.enc \/ v.text \in HexLike \cup BadHex
    THEN {Encrypted(Unreadable), Encrypted(Junk)} \cup {Clear(b) : b \in BadHex}
    ELSE {}

(* A write fails, or the process is killed, before the line or inside it.  *)
Torn(k) == {<<>>, <<CutLine>>} \cup {<<Line(k, v)>> : v \in Cut(config[k])}

SaveFails(k) ==
    /\ pc = "save" /\ k \in todo
    /\ \E part \in Torn(k) :
           files' = [files EXCEPT ![target] = files[target] \o part]
    /\ Exit

SaveReturns ==
    /\ pc = "save" /\ todo = {}
    /\ pc' = "menu"
    /\ UNCHANGED <<config, files, target, todo>>

(* "q", or the end of the input at any prompt.                             *)
Quit == pc = "menu" /\ UNCHANGED files /\ Exit

Next ==
    \/ Start
    \/ \E t \in Texts \cup {Empty} : GiveName(t)
    \/ \E k \in Keys :
          \/ \E t \in Texts : AddClear(k, t)
          \/ \E t \in Secrets : AddEncrypted(k, t)
          \/ Remove(k)
          \/ SaveWrites(k)
          \/ SaveFails(k)
    \/ \E f \in Files : Load(f) \/ SaveCreates(f)
    \/ SaveRefused \/ SaveReturns \/ Quit

Spec == Init /\ [][Next]_vars

-----------------------------------------------------------------------------
AllTexts == Texts \cup Secrets \cup BadHex \cup {Empty, Junk, Unreadable}
    \cup {Decrypted[t] : t \in HexLike} \cup {KeyRest[k] : k \in ColonKeys}

Values == [enc : BOOLEAN, text : AllTexts]

Lines == [sep : BOOLEAN, key : Keys, enc : BOOLEAN, text : AllTexts]

(* The type invariant.                                                     *)
TypeOK ==
    /\ DOMAIN config \subseteq Keys
    /\ \A k \in DOMAIN config : config[k] \in Values
    /\ DOMAIN files = Files
    /\ \A f \in Files : \A i \in DOMAIN files[f] : files[f][i] \in Lines
    /\ pc \in {"off", "menu", "save"}
    /\ target \in Files
    /\ todo \subseteq DOMAIN config

(* An entry survives a save and a load if its key has no colon, is not     *)
(* what another key of the map begins with, and its clear value does not   *)
(* begin with "E$".                                                        *)
Survives(c, k) ==
    /\ k \in PlainKeys
    /\ \A x \in DOMAIN c \cap ColonKeys : KeyHead[x] # k
    /\ c[k].enc \/ c[k].text \notin HexLike \cup BadHex

(* When save() has written everything, in whatever order the HashMap gives *)
(* the entries, load() brings back each one that survives, with its value  *)
(* and its encryption, and invents none but the heads of keys with a       *)
(* colon.                                                                  *)
RoundTrip ==
    pc = "save" /\ todo = {} =>
        LET back == load(files[target]) IN
            /\ Loadable(files[target])
            /\ \A k \in DOMAIN config : Survives(config, k) =>
                   k \in DOMAIN back /\ back[k] = config[k]
            /\ DOMAIN back \subseteq
                   DOMAIN config \cup {KeyHead[x] : x \in DOMAIN config \cap ColonKeys}

(* One save and load is as bad as it gets: whatever load() takes from any  *)
(* file, one left by a failed save included, survives from then on.        *)
LoadedIsStable ==
    \A f \in Files : Loadable(files[f]) =>
        LET c == load(files[f]) IN \A k \in DOMAIN c : Survives(c, k)

(* A value entered with "Encrypt?" yes is never written to a file in       *)
(* clear, through any sequence of saves, loads, failures and restarts.     *)
SecretsStaySealed ==
    \A f \in Files : \A i \in DOMAIN files[f] :
        files[f][i].text \in Secrets => files[f][i].enc
=============================================================================
