--------------------------- MODULE StartupProofs ---------------------------
(***************************************************************************)
(* Proofs about Startup, for any number of identities, keys, faults and    *)
(* deletions.  What the next start finds on disk is told apart by what the *)
(* last one was doing when it ended: IdentityOnDisk says it of id.lua,     *)
(* PairOnDisk of the certificate and its key.  Neither needs the other.    *)
(***************************************************************************)
EXTENDS Startup, TLAPS

\* The identity is read or created before anything else.
Early == {"off", "identity", "write"}

\* An id.lua whose writes all came to their end is the one of this run, and the
\* one that the hub saw, unless it was deleted since.
IdentityOnDisk ==
    /\ pc = "write" => id \in Identity
    /\ ~cutId =>
        /\ idFile.kind \in {"absent", "mute", "whole"}
        /\ idFile.kind = "absent" => pc \in {"off", "identity"}
        /\ idFile.kind = "mute" <=> pc = "write"
        /\ pc \notin Early => idFile = Whole(id)
        /\ shown # None /\ ~deleted => idFile = Whole(shown)

\* Outside a generation, two files are a pair, unless one was cut.  During it,
\* each step finds what the steps before it left.
PairOnDisk ==
    /\ pc \in {"off", "identity", "write", "ensure", "context"} /\ Exist =>
           Usable \/ cutCert
    /\ pc \in {"cakey", "cacert", "key"} => ~Exist
    /\ pc \in {"request", "sign"} => keyFile.kind = "key"
    /\ pc = "sign" => certFile = Made("request", keyFile.of)
    /\ pc = "context" => Exist
    /\ pc \in {"remove", "login", "online"} => Usable

\* The authority's files outlive a generation only if it was cut, or they could
\* not be removed.
NoAuthorityLeft == caFiles /\ pc \notin Steps \cup {"remove"} => cutCa

IInv ==
    /\ TypeOK
    /\ IdentityOnDisk
    /\ PairOnDisk
    /\ NoAuthorityLeft

\* What there may be under the three names, and what tells it apart.
LEMMA IdFileValues ==
    /\ Absent \in IdFiles /\ Absent.kind = "absent"
    /\ \A i \in Identity :
         Whole(i) \in IdFiles /\ Whole(i).kind = "whole" /\ Whole(i).of = i
    /\ \A s \in Spoilt : File(s) \in IdFiles /\ File(s).kind = s /\ File(s).of = None
    /\ \A f \in IdFiles :
         \/ f = Absent
         \/ \E i \in Identity : f = Whole(i)
         \/ \E s \in Spoilt : f = File(s)
  BY DEF IdFiles, Absent, Whole, File

LEMMA CertificateValues ==
    /\ Absent \in KeyFiles /\ Torn \in KeyFiles
    /\ Absent \in CertFiles /\ Torn \in CertFiles
    /\ Absent.kind = "absent" /\ Torn.kind = "torn"
    /\ \A kind, k : Made(kind, k).kind = kind /\ Made(kind, k).of = k
    /\ \A k \in Key :
         /\ Made("key", k) \in KeyFiles
         /\ Made("request", k) \in CertFiles
         /\ Made("cert", k) \in CertFiles
    /\ \A f \in KeyFiles : f.kind = "key" => f.of \in Key /\ f = Made("key", f.of)
  <1> USE DEF Absent, Torn, File, Made
  <1>1. Absent.kind = "absent" /\ Torn.kind = "torn"
    OBVIOUS
  <1>2. \A kind, k : Made(kind, k).kind = kind /\ Made(kind, k).of = k
    OBVIOUS
  <1>3. \A f \in KeyFiles : f.kind = "key" => f.of \in Key /\ f = Made("key", f.of)
    BY DEF KeyFiles
  <1>4. /\ Absent \in KeyFiles /\ Torn \in KeyFiles
        /\ \A k \in Key : Made("key", k) \in KeyFiles
    BY Zenon DEF KeyFiles
  <1>5. /\ Absent \in CertFiles /\ Torn \in CertFiles
        /\ \A k \in Key : /\ Made("request", k) \in CertFiles
                          /\ Made("cert", k) \in CertFiles
    BY Zenon DEF CertFiles
  <1> QED
    BY <1>1, <1>2, <1>3, <1>4, <1>5, Zenon

LEMMA InitIInv == Init => IInv
  <1> SUFFICES ASSUME Init PROVE IInv
    OBVIOUS
  <1> USE StartupAssumption DEF Init
  <1>1. TypeOK
    <2>1. faults \in 0..MaxFaults /\ deletes \in 0..MaxDeletes
      OBVIOUS
    <2>2. idFile \in IdFiles /\ keyFile \in KeyFiles /\ certFile \in CertFiles
      BY IdFileValues, CertificateValues, Zenon
    <2> QED
      BY <2>1, <2>2 DEF TypeOK
  <1>2. IdentityOnDisk
    BY IdFileValues DEF IdentityOnDisk, Early
  <1>3. PairOnDisk /\ NoAuthorityLeft
    BY DEF PairOnDisk, NoAuthorityLeft, Exist
  <1> QED
    BY <1>1, <1>2, <1>3 DEF IInv

\* What a step leaves alone that touches neither the certificates nor whether
\* there is a generation going on.
LEMMA PairKept ==
    ASSUME PairOnDisk, NoAuthorityLeft,
           UNCHANGED <<certificates, cutCert, cutCa>>,
           pc \in Early \cup {"ensure", "context", "login", "online"},
           \/ pc' \in {"off", "identity", "write"}
           \/ pc' = "ensure" /\ pc \in {"identity", "write"}
           \/ pc = "ensure" /\ pc' = "context" /\ Exist
           \/ pc' \in {"login", "online"} /\ Usable
    PROVE  PairOnDisk' /\ NoAuthorityLeft'
  <1>1. Exist' = Exist /\ Usable' = Usable
    BY DEF certificates, Exist, Usable
  <1>2. pc \in {"login", "online"} => Usable
    BY DEF PairOnDisk
  <1>3. pc' \notin Steps \cup {"remove"}
    BY DEF Steps
  <1>4. PairOnDisk'
    BY <1>1, <1>2 DEF PairOnDisk, certificates, Steps, Early
  <1>5. NoAuthorityLeft'
    BY <1>3 DEF NoAuthorityLeft, certificates, Steps, Early
  <1> QED
    BY <1>4, <1>5

LEMMA IdentityStepIInv ==
    ASSUME IInv,
           \/ Start \/ LoadIdentity \/ CreateIdentity
           \/ WriteIdentity \/ WriteIdentityFails
    PROVE  IInv'
  <1> USE StartupAssumption DEF identity, certificates, history
  <1>1. faults \in Nat /\ faults \in 0..MaxFaults
    BY DEF IInv, TypeOK
  <1>2. CASE Start
    <2>1. TypeOK'
      BY <1>2 DEF Start, IInv, TypeOK
    <2>2. IdentityOnDisk'
      BY <1>2 DEF Start, IInv, IdentityOnDisk, Early
    <2>3. PairOnDisk' /\ NoAuthorityLeft'
      BY <1>2, PairKept DEF Start, IInv, Early
    <2> QED
      BY <2>1, <2>2, <2>3 DEF IInv
  <1>3. CASE LoadIdentity
    <2>1. id' \in Identity \cup {None} /\ pc' \in {"off", "ensure"}
      BY <1>3, IdFileValues DEF LoadIdentity, Raise, IInv, TypeOK
    <2>2. TypeOK'
      BY <1>3, <2>1 DEF LoadIdentity, IInv, TypeOK
    <2>3. ~cutId => idFile.kind = "whole"
      BY <1>3 DEF LoadIdentity, IInv, IdentityOnDisk
    <2>4. idFile.kind = "whole" => idFile = Whole(idFile.of)
      BY IdFileValues DEF IInv, TypeOK, Spoilt
    <2>5. IdentityOnDisk'
      BY <1>3, <2>1, <2>3, <2>4 DEF LoadIdentity, Raise, IInv, IdentityOnDisk, Early
    <2>6. PairOnDisk' /\ NoAuthorityLeft'
      BY <1>3, <2>1, PairKept DEF LoadIdentity, IInv, Early
    <2> QED
      BY <2>2, <2>5, <2>6 DEF IInv
  <1>4. CASE CreateIdentity
    <2>1. idFile' = IF idFile = Absent THEN File("mute") ELSE idFile
      BY <1>4 DEF CreateIdentity
    <2>2. idFile' \in IdFiles /\ (idFile = Absent => idFile'.kind = "mute")
      BY <2>1, IdFileValues DEF Spoilt, IInv, TypeOK
    <2>3. TypeOK'
      BY <1>4, <2>2 DEF CreateIdentity, IInv, TypeOK
    <2>4. ~cutId => idFile = Absent /\ ~(shown # None /\ ~deleted)
      BY <1>4, IdFileValues DEF CreateIdentity, IInv, TypeOK, IdentityOnDisk, Spoilt
    <2>5. IdentityOnDisk'
      BY <1>4, <2>2, <2>4 DEF CreateIdentity, IdentityOnDisk, Early
    <2>6. PairOnDisk' /\ NoAuthorityLeft'
      BY <1>4, PairKept DEF CreateIdentity, IInv, Early
    <2> QED
      BY <2>3, <2>5, <2>6 DEF IInv
  <1>5. CASE WriteIdentity
    <2>1. id \in Identity /\ (~cutId => idFile.kind = "mute")
      BY <1>5 DEF WriteIdentity, IInv, IdentityOnDisk
    <2>2. idFile' \in IdFiles
      BY <1>5, <2>1, IdFileValues DEF WriteIdentity, Appended, Spoilt
    <2>3. TypeOK'
      BY <1>5, <2>2 DEF WriteIdentity, IInv, TypeOK
    <2>4. ~cutId => idFile' = Whole(id) /\ idFile'.kind = "whole"
      BY <1>5, <2>1, IdFileValues DEF WriteIdentity, Appended
    <2>5. ~cutId => ~(shown # None /\ ~deleted)
      <3>1. shown \in Identity \cup {None}
        BY DEF IInv, TypeOK
      <3> QED
        BY <2>1, <3>1, IdFileValues DEF IInv, IdentityOnDisk
    <2>6. IdentityOnDisk'
      BY <1>5, <2>4, <2>5 DEF WriteIdentity, IdentityOnDisk, Early
    <2>7. PairOnDisk' /\ NoAuthorityLeft'
      BY <1>5, PairKept DEF WriteIdentity, IInv, Early
    <2> QED
      BY <2>3, <2>6, <2>7 DEF IInv
  <1>6. CASE WriteIdentityFails
    <2>1. faults' = faults + 1 /\ faults' \in 0..MaxFaults
      BY <1>1, <1>6 DEF WriteIdentityFails, Fault
    <2>2. idFile' \in IdFiles
      BY <1>6, IdFileValues DEF WriteIdentityFails, Spoilt, IInv, TypeOK
    <2>3. TypeOK'
      BY <1>6, <2>1, <2>2 DEF WriteIdentityFails, IInv, TypeOK
    <2>4. IdentityOnDisk'
      BY <1>6 DEF WriteIdentityFails, IdentityOnDisk
    <2>5. PairOnDisk' /\ NoAuthorityLeft'
      BY <1>6, PairKept DEF WriteIdentityFails, IInv, Early
    <2> QED
      BY <2>3, <2>4, <2>5 DEF IInv
  <1> QED
    BY <1>2, <1>3, <1>4, <1>5, <1>6

\* A step past the identity does to id.lua and `id` what it does to nothing else.
LEMMA IdentityIsKept ==
    ASSUME IdentityOnDisk, UNCHANGED <<idFile, shown, deleted, cutId>>,
           \/ pc' \notin Early /\ pc \notin Early /\ id' = id
           \/ pc # "write" /\ pc' = "off"
    PROVE  IdentityOnDisk'
  BY DEF IdentityOnDisk, Early

LEMMA ChecksIInv ==
    ASSUME IInv, EnsureNothing \/ EnsureRefuses \/ BeginGeneration \/ NewContext
    PROVE  IInv'
  <1> USE StartupAssumption DEF identity, certificates, history
  <1>1. CASE EnsureNothing
    <2>1. TypeOK'
      BY <1>1 DEF EnsureNothing, IInv, TypeOK
    <2>2. IdentityOnDisk'
      BY <1>1, IdentityIsKept DEF EnsureNothing, IInv, Early
    <2>3. PairOnDisk' /\ NoAuthorityLeft'
      BY <1>1, PairKept DEF EnsureNothing, IInv
    <2> QED
      BY <2>1, <2>2, <2>3 DEF IInv
  <1>2. CASE EnsureRefuses
    <2>1. TypeOK'
      BY <1>2 DEF EnsureRefuses, Raise, IInv, TypeOK
    <2>2. IdentityOnDisk'
      BY <1>2, IdentityIsKept DEF EnsureRefuses, Raise, IInv
    <2>3. PairOnDisk' /\ NoAuthorityLeft'
      BY <1>2, PairKept DEF EnsureRefuses, Raise, IInv
    <2> QED
      BY <2>1, <2>2, <2>3 DEF IInv
  <1>3. CASE BeginGeneration
    <2>1. TypeOK'
      BY <1>3 DEF BeginGeneration, IInv, TypeOK, Steps
    <2>2. IdentityOnDisk'
      BY <1>3, IdentityIsKept DEF BeginGeneration, IInv, Early
    <2>3. PairOnDisk' /\ NoAuthorityLeft'
      BY <1>3 DEF BeginGeneration, PairOnDisk, NoAuthorityLeft, Exist, Steps
    <2> QED
      BY <2>1, <2>2, <2>3 DEF IInv
  <1>4. CASE NewContext
    <2>1. TypeOK'
      BY <1>4 DEF NewContext, Raise, IInv, TypeOK
    <2>2. IdentityOnDisk'
      BY <1>4, IdentityIsKept DEF NewContext, Raise, IInv, Early
    <2>3. PairOnDisk' /\ NoAuthorityLeft'
      BY <1>4, PairKept DEF NewContext, Raise, IInv
    <2> QED
      BY <2>1, <2>2, <2>3 DEF IInv
  <1> QED
    BY <1>1, <1>2, <1>3, <1>4

LEMMA GenerationIInv ==
    ASSUME IInv, MakeAuthority \/ MakeKey \/ MakeRequest \/ Sign \/ RemoveAuthority
    PROVE  IInv'
  <1> USE StartupAssumption DEF identity, certificates, history
  <1>1. faults \in Nat /\ faults \in 0..MaxFaults
    BY DEF IInv, TypeOK
  <1>2. CASE MakeAuthority
    <2>1. TypeOK'
      BY <1>2 DEF MakeAuthority, IInv, TypeOK, Steps
    <2>2. IdentityOnDisk'
      BY <1>2, IdentityIsKept DEF MakeAuthority, IInv, Early
    <2>3. PairOnDisk' /\ NoAuthorityLeft'
      BY <1>2 DEF MakeAuthority, IInv, PairOnDisk, NoAuthorityLeft, Exist, Steps
    <2> QED
      BY <2>1, <2>2, <2>3 DEF IInv
  <1>3. CASE MakeKey
    <2>1. PICK k \in Key : keyFile' = Made("key", k)
      BY <1>3 DEF MakeKey
    <2>2. keyFile' \in KeyFiles /\ keyFile'.kind = "key"
      BY <2>1, CertificateValues
    <2>3. TypeOK'
      BY <1>3, <2>2 DEF MakeKey, IInv, TypeOK, Steps
    <2>4. IdentityOnDisk'
      BY <1>3, IdentityIsKept DEF MakeKey, IInv, Early
    <2>5. PairOnDisk' /\ NoAuthorityLeft'
      BY <1>3, <2>2 DEF MakeKey, PairOnDisk, NoAuthorityLeft, Steps
    <2> QED
      BY <2>3, <2>4, <2>5 DEF IInv
  <1>4. CASE MakeRequest
    <2>1. keyFile.kind = "key" /\ keyFile.of \in Key
      BY <1>4, CertificateValues DEF MakeRequest, IInv, TypeOK, PairOnDisk
    <2>2. certFile' = Made("request", keyFile.of) /\ certFile' \in CertFiles
      BY <1>4, <2>1, CertificateValues DEF MakeRequest
    <2>3. TypeOK'
      BY <1>4, <2>2 DEF MakeRequest, IInv, TypeOK, Steps
    <2>4. IdentityOnDisk'
      BY <1>4, IdentityIsKept DEF MakeRequest, IInv, Early
    <2>5. PairOnDisk' /\ NoAuthorityLeft'
      BY <1>4, <2>1, <2>2 DEF MakeRequest, PairOnDisk, NoAuthorityLeft, Steps
    <2> QED
      BY <2>3, <2>4, <2>5 DEF IInv
  <1>5. CASE Sign
    <2>1. /\ keyFile.kind = "key" /\ keyFile.of \in Key
          /\ certFile.of = keyFile.of
      BY <1>5, CertificateValues DEF Sign, IInv, TypeOK, PairOnDisk
    <2>2. /\ certFile' \in CertFiles
          /\ certFile'.kind = "cert" /\ certFile'.of = keyFile.of
      BY <1>5, <2>1, CertificateValues DEF Sign
    <2>3. TypeOK'
      BY <1>5, <2>2 DEF Sign, IInv, TypeOK
    <2>4. IdentityOnDisk'
      BY <1>5, IdentityIsKept DEF Sign, IInv, Early
    <2>5. PairOnDisk' /\ NoAuthorityLeft'
      BY <1>5, <2>1, <2>2 DEF Sign, PairOnDisk, NoAuthorityLeft, Usable
    <2> QED
      BY <2>3, <2>4, <2>5 DEF IInv
  <1>6. CASE RemoveAuthority
    <2>1. /\ faults' \in 0..MaxFaults /\ caFiles' \in BOOLEAN
          /\ cutCa' \in BOOLEAN /\ (caFiles' => cutCa')
      <3>1. caFiles \in BOOLEAN
        BY DEF IInv, TypeOK
      <3>2. CASE caFiles' = FALSE /\ cutCa' = FALSE /\ UNCHANGED faults
        BY <1>1, <3>2
      <3>3. CASE Fault /\ cutCa' = TRUE /\ UNCHANGED caFiles
        BY <1>1, <3>1, <3>3 DEF Fault
      <3> QED
        BY <1>6, <3>2, <3>3 DEF RemoveAuthority
    <2>2. TypeOK'
      BY <1>6, <2>1 DEF RemoveAuthority, IInv, TypeOK
    <2>3. IdentityOnDisk'
      BY <1>6, IdentityIsKept DEF RemoveAuthority, IInv, Early
    <2>4. Usable /\ Exist
      BY <1>6, CertificateValues DEF RemoveAuthority, IInv, PairOnDisk, Usable, Exist
    <2>5. PairOnDisk' /\ NoAuthorityLeft'
      BY <1>6, <2>1, <2>4 DEF RemoveAuthority, PairOnDisk, NoAuthorityLeft, Usable, Exist
    <2> QED
      BY <2>2, <2>3, <2>5 DEF IInv
  <1> QED
    BY <1>2, <1>3, <1>4, <1>5, <1>6

\* A generation that ends half-way leaves no two files, or is remembered.
LEMMA CutShortPair ==
    ASSUME IInv, pc \in Steps, CutShort, pc' = "off"
    PROVE  /\ keyFile' \in KeyFiles /\ certFile' \in CertFiles
           /\ caFiles' \in BOOLEAN /\ cutCert' \in BOOLEAN /\ cutCa' \in BOOLEAN
           /\ PairOnDisk' /\ NoAuthorityLeft'
  <1>1. caFiles' = caFiles \/ caFiles' = (caFiles \/ pc \in {"cakey", "cacert"})
    BY DEF CutShort
  <1>2. caFiles' \in BOOLEAN
    BY <1>1 DEF IInv, TypeOK
  <1>3. cutCert' = (cutCert \/ pc \in {"key", "request", "sign"})
    BY DEF CutShort
  <1>4. cutCert' \in BOOLEAN
    BY <1>3
  <1>5. keyFile' \in KeyFiles /\ certFile' \in CertFiles
    BY CertificateValues DEF CutShort, IInv, TypeOK
  <1>6. PairOnDisk'
    <2>1. CASE pc \in {"cakey", "cacert"}
      <3>1. keyFile' = keyFile /\ certFile' = certFile /\ ~Exist
        BY <2>1 DEF CutShort, IInv, PairOnDisk
      <3> QED
        BY <3>1 DEF PairOnDisk, Exist
    <2>2. CASE pc \in {"key", "request", "sign"}
      BY <1>3, <2>2 DEF PairOnDisk
    <2> QED
      BY <2>1, <2>2 DEF Steps
  <1>7. cutCa' = TRUE
    BY DEF CutShort
  <1> QED
    BY <1>2, <1>4, <1>5, <1>6, <1>7 DEF NoAuthorityLeft

LEMMA StepFailsIInv == IInv /\ StepFails => IInv'
  <1> SUFFICES ASSUME IInv, StepFails PROVE IInv'
    OBVIOUS
  <1>1. /\ pc \in Steps /\ CutShort /\ Fault
        /\ pc' = "off" /\ id' = None
        /\ UNCHANGED <<idFile, shown, deleted, cutId, deletes>>
    BY DEF StepFails, Raise
  <1>2. faults' \in 0..MaxFaults
    BY <1>1, StartupAssumption DEF Fault, IInv, TypeOK
  <1>3. /\ keyFile' \in KeyFiles /\ certFile' \in CertFiles
        /\ caFiles' \in BOOLEAN /\ cutCert' \in BOOLEAN /\ cutCa' \in BOOLEAN
        /\ PairOnDisk' /\ NoAuthorityLeft'
    BY <1>1, <1>2, CutShortPair
  <1>4. TypeOK'
    BY <1>1, <1>2, <1>3 DEF IInv, TypeOK
  <1>5. IdentityOnDisk'
    BY <1>1, IdentityIsKept DEF IInv, Steps
  <1> QED
    BY <1>3, <1>4, <1>5 DEF IInv

LEMMA DieIInv == IInv /\ Die => IInv'
  <1> SUFFICES ASSUME IInv, Die PROVE IInv'
    OBVIOUS
  <1>1. /\ pc \notin {"off", "online"} /\ Fault
        /\ pc' = "off" /\ id' = None
        /\ cutId' = (cutId \/ pc = "write")
        /\ UNCHANGED <<idFile, shown, deleted, deletes>>
    BY DEF Die, Raise
  <1>2. faults' \in 0..MaxFaults
    BY <1>1, StartupAssumption DEF Fault, IInv, TypeOK
  <1>3. /\ keyFile' \in KeyFiles /\ certFile' \in CertFiles
        /\ caFiles' \in BOOLEAN /\ cutCert' \in BOOLEAN /\ cutCa' \in BOOLEAN
        /\ PairOnDisk' /\ NoAuthorityLeft'
    <2>1. CASE pc \in Steps
      BY <1>1, <1>2, <2>1, CutShortPair DEF Die
    <2>2. CASE pc \notin Steps
      <3>1. /\ UNCHANGED <<certificates, cutCert>>
            /\ cutCa' = (cutCa \/ pc = "remove")
        BY <2>2 DEF Die
      <3>2. pc = "remove" \/ pc \in Early \cup {"ensure", "context", "login"}
        BY <1>1, <2>2 DEF IInv, TypeOK, Early
      <3>3. Exist => Usable \/ cutCert
        BY <3>2 DEF IInv, PairOnDisk, Early
      <3>4. PairOnDisk'
        BY <1>1, <3>1, <3>3 DEF PairOnDisk, certificates, Exist, Usable
      <3>5. caFiles => cutCa \/ pc = "remove"
        BY <2>2 DEF IInv, NoAuthorityLeft
      <3>6. NoAuthorityLeft'
        BY <3>1, <3>5 DEF NoAuthorityLeft, certificates
      <3>7. cutCa' \in BOOLEAN
        BY <3>1
      <3> QED
        BY <3>1, <3>4, <3>6, <3>7 DEF certificates, IInv, TypeOK
    <2> QED
      BY <2>1, <2>2
  <1>4. TypeOK'
    <2>1. cutId' \in BOOLEAN
      BY <1>1
    <2> QED
      BY <1>1, <1>2, <1>3, <2>1 DEF IInv, TypeOK
  <1>5. IdentityOnDisk'
    BY <1>1 DEF IInv, IdentityOnDisk, Early
  <1> QED
    BY <1>3, <1>4, <1>5 DEF IInv

LEMMA UseIInv ==
    ASSUME IInv, Login \/ Stop
    PROVE  IInv'
  <1> USE StartupAssumption DEF identity, certificates, history
  <1>1. CASE Login
    <2> DEFINE doubt == cutId /\ idFile # Whole(id)
    <2>1. /\ pc = "login" /\ UNCHANGED idFile
          /\ \/ Raise /\ UNCHANGED <<shown, deleted, cutId>>
             \/ /\ id # None /\ pc' = "online" /\ id' = id
                /\ shown' = id /\ deleted' = FALSE /\ cutId' = doubt
      BY <1>1 DEF Login
    <2>2. TypeOK'
      <3>1. doubt \in BOOLEAN
        OBVIOUS
      <3> HIDE DEF doubt
      <3> QED
        BY <1>1, <2>1, <3>1 DEF Login, Raise, IInv, TypeOK
    <2>3. IdentityOnDisk'
      <3>1. CASE Raise /\ UNCHANGED <<shown, deleted, cutId>>
        BY <2>1, <3>1, IdentityIsKept DEF Raise, IInv
      <3>2. CASE /\ id # None /\ pc' = "online" /\ id' = id
                 /\ shown' = id /\ deleted' = FALSE /\ cutId' = doubt
        <4>1. ASSUME ~doubt PROVE idFile = Whole(id) /\ idFile.kind = "whole"
          <5>1. idFile = Whole(id)
            BY <2>1, <4>1 DEF IInv, IdentityOnDisk, Early
          <5> QED
            BY <3>2, <5>1, IdFileValues DEF IInv, TypeOK
        <4> HIDE DEF doubt
        <4> QED
          BY <2>1, <3>2, <4>1 DEF IdentityOnDisk, Early
      <3> QED
        BY <2>1, <3>1, <3>2
    <2>4. PairOnDisk' /\ NoAuthorityLeft'
      BY <1>1, PairKept DEF Login, Raise, IInv, PairOnDisk
    <2> QED
      BY <2>2, <2>3, <2>4 DEF IInv
  <1>2. CASE Stop
    <2>1. TypeOK'
      BY <1>2 DEF Stop, Raise, IInv, TypeOK
    <2>2. IdentityOnDisk'
      BY <1>2, IdentityIsKept DEF Stop, Raise, IInv
    <2>3. PairOnDisk' /\ NoAuthorityLeft'
      BY <1>2, PairKept DEF Stop, Raise, IInv
    <2> QED
      BY <2>1, <2>2, <2>3 DEF IInv
  <1> QED
    BY <1>1, <1>2

LEMMA DeleteIInv == IInv /\ Delete => IInv'
  <1> SUFFICES ASSUME IInv, Delete PROVE IInv'
    OBVIOUS
  <1>1. /\ pc = "off" /\ deletes < MaxDeletes /\ deletes' = deletes + 1
        /\ UNCHANGED <<pc, id, caFiles, shown, cutCa, faults>>
    BY DEF Delete
  <1>2. deletes' \in 0..MaxDeletes
    BY <1>1, StartupAssumption DEF IInv, TypeOK
  <1>3. \/ /\ idFile' = Absent /\ deleted' = TRUE /\ cutId' = FALSE
           /\ UNCHANGED <<keyFile, certFile, cutCert>>
        \/ /\ UNCHANGED <<idFile, deleted, cutId>> /\ cutCert' = FALSE
           /\ \/ keyFile' = Absent /\ UNCHANGED certFile
              \/ certFile' = Absent /\ UNCHANGED keyFile
    BY DEF Delete
  <1>4. TypeOK'
    BY <1>1, <1>2, <1>3, IdFileValues, CertificateValues DEF IInv, TypeOK
  <1>5. IdentityOnDisk'
    BY <1>1, <1>3, IdFileValues DEF IInv, IdentityOnDisk, Early
  <1>6. PairOnDisk' /\ NoAuthorityLeft'
    BY <1>1, <1>3 DEF IInv, PairOnDisk, NoAuthorityLeft, Exist, Usable, Steps
  <1> QED
    BY <1>4, <1>5, <1>6 DEF IInv

LEMMA NextIInv == IInv /\ [Next]_vars => IInv'
  <1>1. IInv /\ UNCHANGED vars => IInv'
    BY DEF vars, identity, certificates, history, IInv, TypeOK, IdentityOnDisk,
       PairOnDisk, NoAuthorityLeft, Exist, Usable
  <1> QED
    BY <1>1, IdentityStepIInv, ChecksIInv, GenerationIInv, StepFailsIInv, DieIInv,
       UseIInv, DeleteIInv DEF Next

\* The invariant of the start-up, for any number of starts, faults and deletions.
THEOREM InvariantHolds == Spec => []IInv
  BY InitIInv, NextIInv, PTL DEF Spec

-----------------------------------------------------------------------------

\* Every state of the start-up is well typed.
THEOREM TypeCorrect == Spec => []TypeOK
  <1>1. IInv => TypeOK
    BY DEF IInv
  <1> QED
    BY <1>1, InvariantHolds, PTL

\* What cert_autogen.ensure lets pass is a pair, unless the last generation was
\* cut while it wrote the two files and neither has been deleted since.
THEOREM EnsuredIsUsableHolds == Spec => []EnsuredIsUsable
  <1>1. IInv => EnsuredIsUsable
    BY DEF IInv, PairOnDisk, NoAuthorityLeft, EnsuredIsUsable, Steps
  <1> QED
    BY <1>1, InvariantHolds, PTL

\* The hub sees one identity at every login, unless id.lua was deleted, or a write
\* of it was cut and the hub has not seen since what the file holds.
THEOREM IdentityKeptHolds == Spec => IdentityKept
  <1>1. IInv /\ [Next]_vars =>
          [(pc = "login" /\ pc' = "online" /\ shown # None /\ ~deleted /\ ~cutId) =>
               id = shown]_vars
    <2> SUFFICES ASSUME IInv, pc = "login", shown # None, ~deleted, ~cutId
                 PROVE  id = shown
      OBVIOUS
    <2>1. Whole(id) = Whole(shown)
      BY DEF IInv, IdentityOnDisk, Early
    <2> QED
      BY <2>1 DEF Whole
  <1> QED
    BY <1>1, InvariantHolds, PTL DEF Spec, IdentityKept
=============================================================================
