------------------------------ MODULE Startup ------------------------------
(***************************************************************************)
(* What the announcer needs before it may log in, and keeps on disk: its   *)
(* ADC identity (core/adc.lua, cfg/id.lua) and its certificate             *)
(* (core/cert_autogen.lua, certs/).  The process may fail or die between   *)
(* any two steps; the next start goes by what is there.                    *)
(*                                                                         *)
(* An identity, a key and a random name are values.  A certificate or the  *)
(* request for one is known by the key that it is made for.  openssl is    *)
(* external: each of its steps writes one file.                            *)
(***************************************************************************)
EXTENDS Naturals

CONSTANTS
    Identity,       \* what adc.createid may return
    Key,            \* what `openssl ecparam -genkey` may return
    None,           \* no file; no value
    MaxFaults,      \* bound on failing writes and steps, and on deaths
    MaxDeletes      \* bound on deletions by the operator

ASSUME StartupAssumption ==
    /\ None \notin Identity \cup Key
    /\ MaxFaults \in Nat /\ MaxDeletes \in Nat

VARIABLES
    pc,         \* "off", "identity", "write", "ensure", a step of openssl,
                \* "remove", "context", "login" or "online"
    idFile,     \* cfg/id.lua: [kind |-> ..., of |-> identity]
    id,         \* the global `id`
    keyFile,    \* certs/serverkey.pem
    certFile,   \* certs/servercert.pem
    caFiles,    \* certs/cakey.pem or cacert.pem is there
    shown,      \* ghost: the identity of the last login
    deleted,    \* ghost: id.lua was deleted since
    cutId,      \* ghost: a write of this id.lua was cut, and the hub has not yet
                \* seen the identity that the file holds
    cutCert,    \* ghost: the last generation was cut after it had begun to write
                \* the files that stay, and neither has been deleted since
    cutCa,      \* ghost: the authority's files were not removed at the end of a
                \* generation, and none has removed them since
    faults, deletes

identity     == <<idFile, id>>
certificates == <<keyFile, certFile, caFiles>>
history      == <<shown, deleted, cutId, cutCert, cutCa>>
vars         == <<pc, identity, certificates, history, faults, deletes>>

-----------------------------------------------------------------------------

\* id.lua is absent; does not load; loads without setting id.pid and id.cid
\* (an empty file does); raises when it is run; or is as it should be.
Spoilt == {"unreadable", "mute", "raising"}
Whole(i) == [kind |-> "whole", of |-> i]
File(kind) == [kind |-> kind, of |-> None]

\* A file under certs/ that was not written to its end.
Torn == [kind |-> "torn", of |-> None]
Made(kind, k) == [kind |-> kind, of |-> k]
Absent == File("absent")

IdFiles   == {Absent} \cup {Whole(i) : i \in Identity} \cup {File(s) : s \in Spoilt}
KeyFiles  == {Absent, Torn} \cup {Made("key", k) : k \in Key}
CertFiles == {Absent, Torn} \cup {Made("request", k) : k \in Key}
                            \cup {Made("cert", k) : k \in Key}

Steps == {"cakey", "cacert", "key", "request", "sign"}

TypeOK ==
    /\ pc \in {"off", "identity", "write", "ensure", "remove", "context", "login",
               "online"} \cup Steps
    /\ idFile \in IdFiles
    /\ id \in Identity \cup {None}
    /\ keyFile \in KeyFiles
    /\ certFile \in CertFiles
    /\ caFiles \in BOOLEAN
    /\ shown \in Identity \cup {None}
    /\ deleted \in BOOLEAN /\ cutId \in BOOLEAN
    /\ cutCert \in BOOLEAN /\ cutCa \in BOOLEAN
    /\ faults \in 0..MaxFaults /\ deletes \in 0..MaxDeletes

\* A fresh installation: id.lua is not part of it, nor is any certificate.
Init ==
    /\ pc = "off"
    /\ idFile = Absent /\ id = None
    /\ keyFile = Absent /\ certFile = Absent /\ caFiles = FALSE
    /\ shown = None
    /\ deleted = FALSE /\ cutId = FALSE /\ cutCert = FALSE /\ cutCa = FALSE
    /\ faults = 0 /\ deletes = 0

Fault == faults < MaxFaults /\ faults' = faults + 1

\* The process ends with an error, which nobody catches.
Raise == pc' = "off" /\ id' = None

-----------------------------------------------------------------------------
(* core/adc.lua                                                            *)

Start ==
    /\ pc = "off"
    /\ pc' = "identity"
    /\ UNCHANGED <<identity, certificates, history, faults, deletes>>

\* loadfile succeeds, and the file is run.
LoadIdentity ==
    /\ pc = "identity"
    /\ idFile.kind \in {"whole", "mute", "raising"}
    /\ IF idFile.kind = "raising"
         THEN Raise
         ELSE pc' = "ensure" /\ id' = idFile.of
    /\ UNCHANGED <<idFile, certificates, history, faults, deletes>>

\* loadfile fails: a new identity, for a file opened for appending.  Where it
\* cannot be opened the start ends, as if the process had died here.
CreateIdentity ==
    /\ pc = "identity"
    /\ idFile.kind \in {"absent", "unreadable"}
    /\ id' \in Identity
    /\ idFile' = IF idFile = Absent THEN File("mute") ELSE idFile
    /\ pc' = "write"
    /\ UNCHANGED <<certificates, history, faults, deletes>>

\* What the text of an identity makes of the file that it is appended to: what
\* did not load may load afterwards, or not, or load and raise.
Appended(i) ==
    IF idFile.kind = "mute" THEN {Whole(i)}
    ELSE {Whole(i), File("unreadable"), File("raising")}

\* Variant: the file gets an identity of its own.
WriteIdentityAgain ==
    /\ pc = "write"
    /\ \E i \in Identity : idFile' \in Appended(i)
    /\ pc' = "ensure"
    /\ UNCHANGED <<id, certificates, history, faults, deletes>>

\* write, flush and close.
WriteIdentity ==
    /\ pc = "write"
    /\ idFile' \in Appended(id)
    /\ pc' = "ensure"
    /\ UNCHANGED <<id, certificates, history, faults, deletes>>

\* Nothing or a part is written, and nobody looks at the result.
WriteIdentityFails ==
    /\ pc = "write" /\ Fault
    /\ idFile' \in IF idFile.kind = "mute"
                     THEN {idFile, File("unreadable")}
                     ELSE {File(s) : s \in Spoilt}
    /\ cutId' = TRUE
    /\ pc' = "ensure"
    /\ UNCHANGED <<id, certificates, shown, deleted, cutCert, cutCa, deletes>>

-----------------------------------------------------------------------------
(* core/cert_autogen.lua, and ssl.newcontext in net.lua                    *)

\* Variant: one of the files is enough.
ExistEither == keyFile # Absent \/ certFile # Absent

Exist == keyFile # Absent /\ certFile # Absent

\* The files are taken as they are.
EnsureNothing ==
    /\ pc = "ensure" /\ Exist
    /\ pc' = "context"
    /\ UNCHANGED <<identity, certificates, history, faults, deletes>>

\* openssl may not be on the path, or give no random name.
EnsureRefuses ==
    /\ pc = "ensure" /\ ~Exist
    /\ Raise
    /\ UNCHANGED <<idFile, certificates, history, faults, deletes>>

BeginGeneration ==
    /\ pc = "ensure" /\ ~Exist
    /\ pc' = "cakey"
    /\ UNCHANGED <<identity, certificates, history, faults, deletes>>

\* The authority's key and certificate, which are removed at the end.
MakeAuthority ==
    /\ pc \in {"cakey", "cacert"}
    /\ caFiles' = TRUE
    /\ pc' = IF pc = "cakey" THEN "cacert" ELSE "key"
    /\ UNCHANGED <<identity, keyFile, certFile, history, faults, deletes>>

\* A new key, over the old one.
MakeKey ==
    /\ pc = "key"
    /\ \E k \in Key : Made("key", k) # keyFile /\ k # certFile.of /\ keyFile' = Made("key", k)
    /\ pc' = "request"
    /\ UNCHANGED <<identity, certFile, caFiles, history, faults, deletes>>

\* Variant: the request is written over the key.
MakeRequestOverKey ==
    /\ pc = "request"
    /\ keyFile' = Made("request", keyFile.of)
    /\ pc' = "sign"
    /\ UNCHANGED <<identity, certFile, caFiles, history, faults, deletes>>

\* The request has the name of the certificate.
MakeRequest ==
    /\ pc = "request"
    /\ certFile' = Made("request", keyFile.of)
    /\ pc' = "sign"
    /\ UNCHANGED <<identity, keyFile, caFiles, history, faults, deletes>>

\* The certificate replaces its own request.
Sign ==
    /\ pc = "sign"
    /\ certFile' = Made("cert", certFile.of)
    /\ pc' = "remove"
    /\ UNCHANGED <<identity, keyFile, caFiles, history, faults, deletes>>

\* os.remove, whose result is ignored.
RemoveAuthority ==
    /\ pc = "remove"
    /\ \/ caFiles' = FALSE /\ cutCa' = FALSE /\ UNCHANGED faults
       \/ Fault /\ cutCa' = TRUE /\ UNCHANGED caFiles
    /\ cutCert' = FALSE
    /\ pc' = "context"
    /\ UNCHANGED <<identity, keyFile, certFile, shown, deleted, cutId, deletes>>

\* What a step leaves that did not come to its end: the file as it was, or torn.
CutShort ==
    /\ keyFile'  \in {keyFile}  \cup IF pc = "key" THEN {Torn} ELSE {}
    /\ certFile' \in {certFile} \cup IF pc \in {"request", "sign"} THEN {Torn} ELSE {}
    /\ caFiles' \in {caFiles, caFiles \/ pc \in {"cakey", "cacert"}}
    /\ cutCert' = (cutCert \/ pc \in {"key", "request", "sign"})
    /\ cutCa' = TRUE

\* ensure returns false, and net.lua raises.
StepFails ==
    /\ pc \in Steps /\ Fault
    /\ CutShort
    /\ Raise
    /\ UNCHANGED <<idFile, shown, deleted, cutId, deletes>>

Usable ==
    /\ keyFile.kind = "key" /\ certFile.kind = "cert"
    /\ keyFile.of = certFile.of

\* LuaSec loads both files and compares them; net.lua asserts that it could.
NewContext ==
    /\ pc = "context"
    /\ IF Usable THEN pc' = "login" /\ UNCHANGED id ELSE Raise
    /\ UNCHANGED <<idFile, certificates, history, faults, deletes>>

-----------------------------------------------------------------------------

\* The INF with PID and CID; without them the concatenation raises.
Login ==
    /\ pc = "login"
    /\ IF id = None
         THEN Raise /\ UNCHANGED <<shown, deleted, cutId>>
         ELSE /\ pc' = "online"
              /\ shown' = id /\ deleted' = FALSE
              /\ cutId' = (cutId /\ idFile # Whole(id))
              /\ UNCHANGED id
    /\ UNCHANGED <<idFile, certificates, cutCert, cutCa, faults, deletes>>

Stop ==
    /\ pc = "online"
    /\ Raise
    /\ UNCHANGED <<idFile, certificates, history, faults, deletes>>

\* The process dies: the GUI kills its worker, or the system goes down.  The text
\* of an identity is in a buffer until the flush; a step of openssl may have ended.
Die ==
    /\ pc \notin {"off", "online"} /\ Fault
    /\ Raise
    /\ IF pc \in Steps
         THEN CutShort
         ELSE /\ cutCa' = (cutCa \/ pc = "remove")
              /\ UNCHANGED <<certificates, cutCert>>
    /\ cutId' = (cutId \/ pc = "write")
    /\ UNCHANGED <<idFile, shown, deleted, deletes>>

\* To have a new identity (README.md:40) or, for a rotation of the key, a new
\* certificate, the operator deletes files.
Delete ==
    /\ pc = "off" /\ deletes < MaxDeletes
    /\ deletes' = deletes + 1
    /\ \/ /\ idFile' = Absent /\ deleted' = TRUE /\ cutId' = FALSE
          /\ UNCHANGED <<keyFile, certFile, cutCert>>
       \/ /\ keyFile' = Absent /\ cutCert' = FALSE
          /\ UNCHANGED <<idFile, deleted, cutId, certFile>>
       \/ /\ certFile' = Absent /\ cutCert' = FALSE
          /\ UNCHANGED <<idFile, deleted, cutId, keyFile>>
    /\ UNCHANGED <<pc, id, caFiles, shown, cutCa, faults>>

-----------------------------------------------------------------------------

Next ==
    \/ Start \/ LoadIdentity \/ CreateIdentity \/ WriteIdentity \/ WriteIdentityFails
    \/ EnsureNothing \/ EnsureRefuses \/ BeginGeneration
    \/ MakeAuthority \/ MakeKey \/ MakeRequest \/ Sign \/ RemoveAuthority \/ StepFails
    \/ NewContext \/ Login \/ Stop \/ Die \/ Delete

Spec == Init /\ [][Next]_vars

-----------------------------------------------------------------------------
(* Properties                                                              *)

\* The hub sees one identity at every login, through any number of starts,
\* unless the operator deleted id.lua in between.  What a cut write leaves may
\* load without an identity, or not load, and is not sure to be ever repaired:
\* until a login shows the hub the identity that the file holds, it may change;
\* from then on it is kept like any other.
IdentityKept ==
    [][(pc = "login" /\ pc' = "online" /\ shown # None /\ ~deleted /\ ~cutId) =>
           id = shown]_vars

\* What ensure lets pass is a certificate with its own key, unless the last
\* generation was cut while it wrote them: then the two files exist, every start
\* takes them and fails, but only until one of them is deleted, however
\* generations, deaths and deletions followed each other before.  No authority's
\* key is left beside them, unless a generation did not come to its removal or
\* that failed, and no later one has removed it.
EnsuredIsUsable ==
    pc = "context" =>
        /\ Usable \/ cutCert
        /\ caFiles => cutCa
=============================================================================
