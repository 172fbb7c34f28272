----------------------------- MODULE WebConfig -----------------------------
(***************************************************************************)
(* Updates of the runtime configuration through the Web API.  Every PUT    *)
(* reads the file, puts the secrets back that the page showed redacted,    *)
(* writes the result to ONE temporary name, validates that name, keeps a   *)
(* backup and renames the temporary file over the configuration.  Requests *)
(* are threads without a lock, so names and open files are modelled apart: *)
(* a name leads to an inode, and so does a request's open descriptor.      *)
(*                                                                         *)
(* Source: app/web_service.py (do_PUT, _write_private_text,                *)
(* _load_web_config, _restore_redacted).                                   *)
(***************************************************************************)
EXTENDS Integers, FiniteSets

CONSTANTS
    Requests,       \* the threads that serve PUT /api/config
    Secrets,        \* values of the secret settings
    MaxPuts,        \* bound: how many requests are made
    MaxKills        \* bound: how often the service dies

ASSUME WebConfigAssumption ==
    /\ IsFiniteSet(Requests)
    /\ Secrets # {} /\ "redacted" \notin Secrets
    /\ MaxPuts \in Nat /\ MaxKills \in Nat

VARIABLES
    content,    \* content[i]: what the inode i holds
    config,     \* the inode of the configuration file
    temp,       \* the inode of .web.tmp, or NoInode
    backup,     \* what .web.bak holds
    put,        \* put[q]: the request that thread q serves
    puts, kills,
    accepted,   \* the last document that a request validated and installed
    overlapped  \* two requests have been served at the same time

webConfigVars ==
    <<content, config, temp, backup, put, puts, kills, accepted, overlapped>>

(* Two names and a descriptor per request lead to at most so many inodes.  *)
Inodes == 1..(Cardinality(Requests) + 2)
NoInode == 0
Used == {config, temp} \union {put[q].handle: q \in Requests}
Fresh == CHOOSE i \in Inodes: i \notin Used

(* A whole document, or what a truncation or two writers leave: it may     *)
(* still parse and validate.                                               *)
Documents == [valid: BOOLEAN, secret: Secrets, whole: {TRUE}]
Debris == [valid: BOOLEAN, secret: Secrets, whole: {FALSE}]
Proposals == [valid: BOOLEAN, secret: Secrets \union {"redacted"}]

(* _restore_redacted: a redacted value is taken from the existing file.    *)
Restored(existing, proposed) ==
    [valid |-> proposed.valid, whole |-> TRUE,
     secret |-> IF proposed.secret = "redacted" THEN existing.secret ELSE proposed.secret]

PutStates == {"idle", "merge", "write", "validate", "backup", "replace"}

WebConfigTypeOK ==
    /\ content \in [Inodes -> Documents \union Debris]
    /\ config \in Inodes /\ temp \in Inodes \union {NoInode}
    /\ backup \in Documents \union Debris
    /\ put \in [Requests -> [at: PutStates, handle: Inodes \union {NoInode},
                             merged: Documents \union Debris]]
    /\ puts \in 0..MaxPuts /\ kills \in 0..MaxKills
    /\ accepted \in Documents \union Debris
    /\ overlapped \in BOOLEAN

Quiet(doc) == [at |-> "idle", handle |-> NoInode, merged |-> doc]

WebConfigInit ==
    \E doc \in Documents:
        /\ doc.valid
        /\ content = [i \in Inodes |-> doc]
        /\ config = 1 /\ temp = NoInode
        /\ backup = doc
        /\ put = [q \in Requests |-> Quiet(doc)]
        /\ puts = 0 /\ kills = 0
        /\ accepted = doc
        /\ overlapped = FALSE

(* The request ends, answered 200 or 400.                                  *)
Done(q) == put' = [put EXCEPT ![q] = Quiet(put[q].merged)]

(* The body is read, the file is read, and the redacted values restored.   *)
Begin(q) ==
    /\ put[q].at = "idle" /\ puts < MaxPuts
    /\ puts' = puts + 1
    /\ \E p \in Proposals:
          put' = [put EXCEPT ![q] = [at |-> "merge", handle |-> NoInode,
                                     merged |-> Restored(content[config], p)]]
    /\ overlapped' = (overlapped \/ \E o \in Requests \ {q}: put[o].at # "idle")
    /\ UNCHANGED <<content, config, temp, backup, kills, accepted>>

(* _write_private_text opens and truncates: the same inode when another    *)
(* request, or a service that died, left one under this name.              *)
Truncate(q) ==
    /\ put[q].at = "merge"
    /\ LET i == IF temp = NoInode THEN Fresh ELSE temp IN
       \E d \in Debris:
          /\ content' = [content EXCEPT ![i] = d]
          /\ temp' = i
          /\ put' = [put EXCEPT ![q].at = "write", ![q].handle = i]
    /\ UNCHANGED <<config, backup, puts, kills, accepted, overlapped>>

(* The document goes to the inode that was opened, whatever its name is by *)
(* now.  Over another request's longer document it leaves a mixture.       *)
Write(q) ==
    /\ put[q].at = "write"
    /\ LET i == put[q].handle IN
       \/ content' = [content EXCEPT ![i] = put[q].merged]
       \/ /\ content[i].whole
          /\ \E d \in Debris: content' = [content EXCEPT ![i] = d]
    /\ put' = [put EXCEPT ![q].at = "validate", ![q].handle = NoInode]
    /\ UNCHANGED <<config, temp, backup, puts, kills, accepted, overlapped>>

(* Fault: the file is renamed before it is validated.                      *)
Validate_Unchecked(q) ==
    /\ put[q].at = "validate" /\ temp # NoInode
    /\ put' = [put EXCEPT ![q].at = "backup"]
    /\ UNCHANGED <<content, config, temp, backup, puts, kills, accepted, overlapped>>

(* _load_web_config reads whatever lies under the temporary name.  A file  *)
(* that is missing or refused ends the request, which removes the name.    *)
Validate(q) ==
    /\ put[q].at = "validate"
    /\ temp # NoInode /\ content[temp].valid
    /\ put' = [put EXCEPT ![q].at = "backup"]
    /\ UNCHANGED <<content, config, temp, backup, puts, kills, accepted, overlapped>>

Refuse(q) ==
    /\ put[q].at = "validate"
    /\ temp # NoInode => ~content[temp].valid
    /\ temp' = NoInode
    /\ Done(q)
    /\ UNCHANGED <<content, config, backup, puts, kills, accepted, overlapped>>

(* copy2 of the current configuration.                                     *)
Backup(q) ==
    /\ put[q].at = "backup"
    /\ backup' = content[config]
    /\ put' = [put EXCEPT ![q].at = "replace"]
    /\ UNCHANGED <<content, config, temp, puts, kills, accepted, overlapped>>

(* os.replace, which fails when another request has taken the name away.   *)
Rename(q) ==
    /\ put[q].at = "replace" /\ temp # NoInode
    /\ config' = temp /\ temp' = NoInode
    /\ accepted' = put[q].merged
    /\ Done(q)
    /\ UNCHANGED <<content, backup, puts, kills, overlapped>>

RenameFails(q) ==
    /\ put[q].at = "replace" /\ temp = NoInode
    /\ Done(q)
    /\ UNCHANGED <<content, config, temp, backup, puts, kills, accepted, overlapped>>

(* The service dies; an unfinished backup may have been cut off.           *)
Kill ==
    /\ kills < MaxKills
    /\ \E q \in Requests: put[q].at # "idle"
    /\ kills' = kills + 1
    /\ put' = [q \in Requests |-> Quiet(put[q].merged)]
    /\ \/ UNCHANGED backup
       \/ (\E q \in Requests: put[q].at = "backup") /\ backup' \in Debris
    /\ UNCHANGED <<content, config, temp, puts, accepted, overlapped>>

WebConfigNext ==
    \/ \E q \in Requests:
          \/ Begin(q) \/ Truncate(q) \/ Write(q) \/ Validate(q) \/ Refuse(q)
          \/ Backup(q) \/ Rename(q) \/ RenameFails(q)
    \/ Kill

WebConfigSpec == WebConfigInit /\ [][WebConfigNext]_webConfigVars

-----------------------------------------------------------------------------
(* As long as requests do not overlap, the configuration is the whole      *)
(* document that the last accepted request validated, whichever requests   *)
(* were refused and wherever the service died meanwhile.                   *)
ConfigIsAccepted ==
    ~overlapped => content[config] = accepted /\ accepted.valid
=============================================================================
