---------------------------- MODULE Certificates ----------------------------
(***************************************************************************)
(* The TLS certificate of the gateway.  An upload records a certificate as *)
(* the active one and writes the certificate file and the key file, one    *)
(* after the other, before it commits; every API process writes the files  *)
(* of an active certificate when it starts.  Several processes share the   *)
(* database and the files, and any of them may stop at any point.          *)
(*                                                                         *)
(* A process handles one upload at a time: the handler does not yield      *)
(* between reading the active certificates and its commit.                 *)
(***************************************************************************)
EXTENDS FiniteSets

CONSTANTS
    Processes,      \* API processes
    Certificates,   \* certificates that may be uploaded or generated
    NoCertificate   \* no certificate

ASSUME CertificateAssumption == NoCertificate \notin Certificates

VARIABLES
    stored,      \* certificates in the database
    active,      \* those that are marked as active
    certFile,    \* the certificate in the certificate file
    keyFile,     \* the certificate whose key is in the key file
    process,     \* what each process is doing
    overlap,     \* ghost: two processes have been writing at once
    settled      \* ghost: the last to write was alone and has come to its end

certificateVars == <<stored, active, certFile, keyFile, process, overlap, settled>>

Process ==
    [pc : {"down", "idle", "generating", "read", "flushed", "half", "written"}, starting : BOOLEAN,
     recording : BOOLEAN, cert : Certificates \union {NoCertificate}, saw : SUBSET Certificates]

CertificateTypeOK ==
    /\ active \subseteq stored
    /\ stored \subseteq Certificates
    /\ certFile \in Certificates \union {NoCertificate}
    /\ keyFile \in Certificates \union {NoCertificate}
    /\ process \in [Processes -> Process]
    /\ overlap \in BOOLEAN
    /\ settled \in BOOLEAN

Down == [pc |-> "down", starting |-> FALSE, recording |-> FALSE,
         cert |-> NoCertificate, saw |-> {}]
Serving == [Down EXCEPT !.pc = "idle"]

CertificateInit ==
    /\ stored = {}
    /\ active = {}
    /\ certFile = NoCertificate
    /\ keyFile = NoCertificate
    /\ process = [p \in Processes |-> Down]
    /\ overlap = FALSE
    /\ settled = FALSE

-----------------------------------------------------------------------------

Busy(p) == process[p].pc \in {"read", "flushed", "half", "written"}

\* A process begins to install a certificate.
Begins(p, doing) ==
    /\ process' = [process EXCEPT ![p] = doing]
    /\ overlap' = \E q \in Processes \ {p} : Busy(q)
    /\ settled' = FALSE
    /\ UNCHANGED <<stored, active, certFile, keyFile>>

\* A certificate is uploaded once: its fingerprint is unique.
Install(p, c) ==
    /\ process[p].pc = "idle"
    /\ c \notin stored
    /\ Begins(p, [Down EXCEPT !.pc = "read", !.recording = TRUE, !.cert = c, !.saw = active])

\* Starting processes wait for each other.
OnlyStarting(p) == \A q \in Processes \ {p} : ~process[q].starting

Generates(p) ==
    /\ process' = [process EXCEPT ![p] = [Down EXCEPT !.pc = "generating", !.starting = TRUE]]
    /\ UNCHANGED <<stored, active, certFile, keyFile, overlap, settled>>

\* Mutant: any certificate on record will do.
BootstrapAny(p, c) ==
    /\ process[p].pc = "down"
    /\ OnlyStarting(p)
    /\ IF active # {}
       THEN c \in stored /\ Begins(p, [Down EXCEPT !.pc = "flushed", !.starting = TRUE, !.cert = c])
       ELSE Generates(p)

\* bootstrap_tls takes an active certificate, whichever it finds first; without
\* one it generates a certificate and installs it.
Bootstrap(p, c) ==
    /\ process[p].pc = "down"
    /\ OnlyStarting(p)
    /\ IF active # {}
       THEN c \in active /\ Begins(p, [Down EXCEPT !.pc = "flushed", !.starting = TRUE, !.cert = c])
       ELSE Generates(p)

\* An upload may have been committed meanwhile: the active certificates are read again.
Generate(p, c) ==
    /\ process[p].pc = "generating"
    /\ c \notin stored
    /\ Begins(p, [Down EXCEPT !.pc = "read", !.starting = TRUE, !.recording = TRUE, !.cert = c, !.saw = active])

\* The rows an upload marks as inactive stay locked until it commits.
RowsFree(p) ==
    \A q \in Processes \ {p} :
        process[q].pc \in {"flushed", "half", "written"} =>
            /\ process[q].saw \intersect process[p].saw = {}
            /\ ~(process[q].recording /\ process[q].cert = process[p].cert)

Moves(p, pc) ==
    /\ process' = [process EXCEPT ![p].pc = pc]
    /\ UNCHANGED <<stored, active, overlap, settled>>

Flush(p) ==
    /\ process[p].pc = "read"
    /\ RowsFree(p)
    /\ process[p].cert \notin stored
    /\ Moves(p, "flushed")
    /\ UNCHANGED <<certFile, keyFile>>

WriteCertificate(p) ==
    /\ process[p].pc = "flushed"
    /\ certFile' = process[p].cert
    /\ Moves(p, "half")
    /\ UNCHANGED keyFile

WriteKey(p) ==
    /\ process[p].pc = "half"
    /\ keyFile' = process[p].cert
    /\ Moves(p, "written")
    /\ UNCHANGED certFile

\* The certificate is recorded, and what was read as active is not any more; a
\* process that started with an active certificate has nothing to record.
Finish(p) ==
    /\ process[p].pc = "written"
    /\ IF process[p].recording
       THEN /\ stored' = stored \union {process[p].cert}
            /\ active' = (active \ process[p].saw) \union {process[p].cert}
       ELSE UNCHANGED <<stored, active>>
    /\ process' = [process EXCEPT ![p] = Serving]
    /\ settled' = ~overlap
    /\ UNCHANGED <<certFile, keyFile, overlap>>

\* An error rolls the database back and leaves the files as they are; it stops
\* a process that is starting.
InstallFails(p) ==
    /\ Busy(p)
    /\ process' = [process EXCEPT ![p] = IF process[p].starting THEN Down ELSE Serving]
    /\ UNCHANGED <<stored, active, certFile, keyFile, overlap, settled>>

ProcessStops(p) ==
    /\ process[p].pc # "down"
    /\ process' = [process EXCEPT ![p] = Down]
    /\ UNCHANGED <<stored, active, certFile, keyFile, overlap, settled>>

CertificateNext ==
    \E p \in Processes :
        \/ \E c \in Certificates : Install(p, c) \/ Bootstrap(p, c) \/ Generate(p, c)
        \/ Flush(p) \/ WriteCertificate(p) \/ WriteKey(p) \/ Finish(p)
        \/ InstallFails(p) \/ ProcessStops(p)

CertificateSpec == CertificateInit /\ [][CertificateNext]_certificateVars

-----------------------------------------------------------------------------

\* Whoever was the last to write the files, without another writing at the same
\* time, and has come to its end left the certificate and the key of one active
\* certificate there, whatever an upload that failed or a process that stopped
\* half way had left before it (install_certificate, bootstrap_tls).
SettledPair == settled => certFile = keyFile /\ certFile \in active
=============================================================================
