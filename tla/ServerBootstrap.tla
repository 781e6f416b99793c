---------------------------- MODULE ServerBootstrap ----------------------------
(***************************************************************************)
(* camlistored start-up (part_001, main and what it calls) over the four   *)
(* files it keeps between runs: the server config, the identity secret     *)
(* ring, and the self-signed TLS cert and key.  One process runs the       *)
(* start-up steps in order; each exitf is a step to "down".  A SIGHUP      *)
(* re-executes main, a crash stops the process at any step, and a stopped  *)
(* process may be started again.  A file the process has created or        *)
(* truncated but not finished writing is "partial".  The config is the     *)
(* default one, or the file a -configfile flag names, which is only Stat'ed.*)
(***************************************************************************)
EXTENDS Naturals

CONSTANTS
  Identities,   \* key ids jsonsign.NewEntity may produce
  NoId,         \* keyId "" : no identity read or generated yet
  Faults,       \* TRUE: syscalls, key generation and Listen may fail
  MaxCrashes,   \* bound: crashes in a behaviour
  ConfigFlags,  \* the -configfile values a run may have: "" or "explicit"
  ListenFlags,  \* the -listen values a run may have: set (TRUE) or empty
  BadConfigs    \* TRUE: a user's config may lack "listen" or name half a TLS pair

ASSUME NoId \notin Identities /\ Faults \in BOOLEAN /\ MaxCrashes \in Nat
ASSUME ConfigFlags \subseteq {"", "explicit"} /\ ConfigFlags # {}
ASSUME ListenFlags \subseteq BOOLEAN /\ ListenFlags # {} /\ BadConfigs \in BOOLEAN

FileStates == {"absent", "partial", "complete"}

(* The settings of a config file that start-up reads: "https" (true when  *)
(* absent), whether TLSCertFile/TLSKeyFile name the self-generated        *)
(* defCert/defKey ("default"), are both empty ("none"), both name the     *)
(* user's own files ("own") or only one is set ("half"); whether "listen" *)
(* is set; and "identity".                                                 *)
Configs == [https : BOOLEAN, tls : {"none", "default", "own", "half"},
            listen : BOOLEAN, identity : Identities \cup {NoId}]

(* The config newDefaultConfigFile writes: listen ":3179", HTTPS false,   *)
(* no TLS files.                                                           *)
DefaultConfig(id) == [https |-> FALSE, tls |-> "none", listen |-> TRUE, identity |-> id]

Pcs == {"statConfig", "mkConfigDir", "mkBlobDir", "statRing", "readRing",
        "newEntity", "createRing", "writeRing", "createConfig", "writeConfig",
        "load", "setupTLS", "genKey", "createCert", "encodeCert", "openKey",
        "encodeKey", "install", "listen", "serving", "down"}

VARIABLES
  pc,        \* the start-up step the process is at
  config,    \* the config file at osutil.UserServerConfigPath()
  conf,      \* its settings, meaningful when it is complete
  ring,      \* the identity secret ring file
  ringId,    \* the key id the ring holds, when complete
  keyId,     \* newDefaultConfigFile's local keyId
  cert,      \* defCert
  key,       \* defKey
  paired,    \* defKey was written by the genSelfTLS call that wrote defCert
  tlsSet,    \* what ws.SetTLS was given in this run: {} or one pair
  crashes,
  flag,      \* *flagConfigFile, fixed for the behaviour
  listenFlag \* *listenFlag is set, fixed for the behaviour

vars == <<flag, listenFlag, pc, config, conf, ring, ringId, keyId, cert, key, paired, tlsSet, crashes>>

(* "user": a file the config names that is not defCert or defKey.        *)
TLSPairs == [cert : FileStates \cup {"user"}, key : FileStates \cup {"user"}, paired : BOOLEAN]
NoTLS == {}

TypeOK ==
  /\ pc \in Pcs
  /\ config \in FileStates /\ conf \in Configs
  /\ ring \in FileStates /\ ringId \in Identities
  /\ keyId \in Identities \cup {NoId}
  /\ cert \in FileStates /\ key \in FileStates /\ paired \in BOOLEAN
  /\ tlsSet \in SUBSET TLSPairs
  /\ crashes \in 0..MaxCrashes
  /\ flag \in ConfigFlags /\ listenFlag \in ListenFlags

(* What an earlier run can have left, with no file half-written: a fresh  *)
(* machine, a ring without config (the config write failed), a config     *)
(* edited by the user naming the ring's identity, TLS files from an       *)
(* earlier genSelfTLS, possibly one that failed to open the key (the cert *)
(* is always written first).  A -configfile names a file the user keeps,  *)
(* beside a ring of the identity it names; the name may be wrong.  With   *)
(* BadConfigs a config may lack "listen" or name half a TLS pair.          *)
Init ==
  /\ pc = "statConfig"
  /\ flag \in ConfigFlags
  /\ ring \in IF flag = "explicit" THEN {"complete"} ELSE {"absent", "complete"}
  /\ ringId \in Identities
  /\ config \in IF ring = "complete" THEN {"absent", "complete"} ELSE {"absent"}
  /\ listenFlag \in ListenFlags
  /\ conf \in {c \in Configs : c.identity = ringId /\ (BadConfigs \/ (c.listen /\ c.tls # "half"))}
  /\ cert \in {"absent", "complete"}
  /\ key \in IF cert = "complete" THEN {"absent", "complete"} ELSE {"absent"}
  /\ paired = (key = "complete")
  /\ keyId = NoId /\ tlsSet = NoTLS /\ crashes = 0

Goto(l) == pc' = l
(* exitf, log.Fatal, or an error returned to main: the process stops.    *)
Exit == pc' = "down"

fileVars == <<config, conf, ring, ringId, cert, key, paired>>

(* findConfigFile(""): os.Stat(absPath); generate only if it does not    *)
(* exist, and any other Stat error goes back to main's exitf.             *)
(* findConfigFile(file): absolute or joined to CamliConfigDir, then only   *)
(* os.Stat; its error is main's exitf "Error finding config file".         *)
StatConfig ==
  /\ pc = "statConfig"
  /\ \/ flag = "" /\ Goto(IF config = "absent" THEN "mkConfigDir" ELSE "load")
     \/ flag = "" /\ Faults /\ config # "absent" /\ Exit
     \/ flag = "explicit" /\ config = "complete" /\ Goto("load")
     \/ flag = "explicit" /\ (config = "absent" \/ Faults) /\ Exit
  /\ UNCHANGED <<fileVars, keyId, tlsSet, crashes>>

(* os.MkdirAll(osutil.CamliConfigDir()), then newDefaultConfigFile's      *)
(* os.MkdirAll(blobDir); the directories themselves are not modelled.     *)
MkDir(from, to) ==
  /\ pc = from
  /\ \/ Goto(to)
     \/ Faults /\ Exit
  /\ UNCHANGED <<fileVars, keyId, tlsSet, crashes>>

(* os.Stat(secRing): reuse an existing ring, generate one if it does not  *)
(* exist; another Stat error matches no case and fails with "Secret ring". *)
StatRing ==
  /\ pc = "statRing"
  /\ \/ Goto(IF ring = "absent" THEN "newEntity" ELSE "readRing")
     \/ Faults /\ Exit
  /\ UNCHANGED <<fileVars, keyId, tlsSet, crashes>>

(* Mutant of ReadRing: `keyId, err := keyIdFromRing(secRing)` inside the *)
(* switch case shadows keyId, so the reused identity is dropped.          *)
ReadRingShadowed ==
  /\ pc = "readRing"
  /\ \/ ring = "complete" /\ Goto("createConfig")
     \/ (ring = "partial" \/ Faults) /\ Exit
  /\ UNCHANGED <<fileVars, keyId, tlsSet, crashes>>

(* keyIdFromRing: Open and openpgp.ReadKeyRing.  A partial ring does not  *)
(* parse (or holds no entity), which is the error "Secret ring: ...".     *)
ReadRing ==
  /\ pc = "readRing"
  /\ \/ ring = "complete" /\ keyId' = ringId /\ Goto("createConfig")
     \/ (ring = "partial" \/ Faults) /\ Exit /\ UNCHANGED keyId
  /\ UNCHANGED <<fileVars, tlsSet, crashes>>

(* generateNewSecRing: jsonsign.NewEntity; it may fail.                   *)
NewEntity ==
  /\ pc = "newEntity"
  /\ \/ Goto("createRing")
     \/ Faults /\ Exit
  /\ UNCHANGED <<fileVars, keyId, tlsSet, crashes>>

(* os.OpenFile(secRing, O_RDWR|O_CREATE|O_EXCL): an empty ring exists from *)
(* here on; O_EXCL fails if the ring already exists.                       *)
CreateRing ==
  /\ pc = "createRing"
  /\ \/ ring = "absent" /\ ring' = "partial" /\ Goto("writeRing")
     \/ (ring # "absent" \/ Faults) /\ Exit /\ UNCHANGED ring
  /\ UNCHANGED <<config, conf, ringId, cert, key, paired, keyId, tlsSet, crashes>>

(* jsonsign.WriteKeyRing: on success the ring holds the new entity and its *)
(* key id is returned; on error the partial ring is left as it is.        *)
WriteRing ==
  /\ pc = "writeRing"
  /\ \/ \E id \in Identities :
          /\ ring' = "complete" /\ ringId' = id /\ keyId' = id
          /\ Goto("createConfig")
     \/ Faults /\ Exit /\ UNCHANGED <<ring, ringId, keyId>>
  /\ UNCHANGED <<config, conf, cert, key, paired, tlsSet, crashes>>

(* ioutil.WriteFile(path, confData, 0600): open with O_TRUNC|O_CREATE ...  *)
CreateConfig ==
  /\ pc = "createConfig"
  /\ \/ config' = "partial" /\ Goto("writeConfig")
     \/ Faults /\ Exit /\ UNCHANGED config
  /\ UNCHANGED <<conf, ring, ringId, cert, key, paired, keyId, tlsSet, crashes>>

(* ... and write the JSON of the default config with conf.Identity = keyId. *)
WriteConfig ==
  /\ pc = "writeConfig"
  /\ \/ config' = "complete" /\ conf' = DefaultConfig(keyId) /\ Goto("load")
     \/ Faults /\ Exit /\ UNCHANGED <<config, conf>>
  /\ UNCHANGED <<ring, ringId, cert, key, paired, keyId, tlsSet, crashes>>

(* main: serverconfig.Load(fileName); a partial file does not parse, and *)
(* reading the file may fail.                                              *)
(* listenAndBaseURL: -listen takes priority over the config's "listen";    *)
(* with neither, exitf.                                                    *)
HasListen == listenFlag \/ conf.listen

Load ==
  /\ pc = "load"
  /\ \/ config = "complete" /\ HasListen /\ Goto("setupTLS")
     \/ (config # "complete" \/ ~HasListen \/ Faults) /\ Exit
  /\ UNCHANGED <<fileVars, keyId, tlsSet, crashes>>

(* ws.SetTLS(cert, key), recorded with the state of the two files.        *)
SetTLS(c, k, p) == tlsSet' = {[cert |-> c, key |-> k, paired |-> p]}

(* setupTLS with other names: exitf if only one of the two is set; the    *)
(* user's own files go to ws.SetTLS unchecked, as the user keeps them.    *)
NamedTLSFiles ==
  \/ conf.https /\ conf.tls = "half" /\ Exit /\ UNCHANGED tlsSet
  \/ conf.https /\ conf.tls = "own" /\ SetTLS("user", "user", TRUE) /\ Goto("install")

(* Mutant of SetupTLS: only the cert is stat'ed.                          *)
SetupTLSStatCertOnly ==
  /\ pc = "setupTLS"
  /\ \/ ~conf.https /\ Goto("install") /\ UNCHANGED tlsSet
     \/ conf.https /\ conf.tls = "none" /\ Goto("genKey") /\ UNCHANGED tlsSet
     \/ NamedTLSFiles
     \/ /\ conf.https /\ conf.tls = "default"
        /\ \/ cert # "absent" /\ SetTLS(cert, key, paired) /\ Goto("install")
           \/ cert = "absent" /\ Goto("genKey") /\ UNCHANGED tlsSet
  /\ UNCHANGED <<fileVars, keyId, crashes>>

(* setupTLS: nothing unless "https".  With the default cert and key named, *)
(* os.Stat both: if both exist they are used as they are; if either does  *)
(* not exist genSelfTLS writes them; another Stat error is fatal.  With no *)
(* TLS files named, genSelfTLS runs on every start.                       *)
SetupTLS ==
  /\ pc = "setupTLS"
  /\ \/ ~conf.https /\ Goto("install") /\ UNCHANGED tlsSet
     \/ conf.https /\ conf.tls = "none" /\ Goto("genKey") /\ UNCHANGED tlsSet
     \/ NamedTLSFiles
     \/ /\ conf.https /\ conf.tls = "default"
        /\ \/ cert # "absent" /\ key # "absent" /\ SetTLS(cert, key, paired) /\ Goto("install")
           \/ (cert = "absent" \/ key = "absent") /\ Goto("genKey") /\ UNCHANGED tlsSet
           \/ Faults /\ cert # "absent" /\ key # "absent" /\ Exit /\ UNCHANGED tlsSet
  /\ UNCHANGED <<fileVars, keyId, crashes>>

(* genSelfTLS: rsa.GenerateKey and x509.CreateCertificate may fail.       *)
GenKey ==
  /\ pc = "genKey"
  /\ \/ Goto("createCert")
     \/ Faults /\ Exit
  /\ UNCHANGED <<fileVars, keyId, tlsSet, crashes>>

(* os.Create(defCert) truncates the cert; the key on disk is the old one. *)
CreateCert ==
  /\ pc = "createCert"
  /\ \/ cert' = "partial" /\ paired' = FALSE /\ Goto("encodeCert")
     \/ Faults /\ Exit /\ UNCHANGED <<cert, paired>>
  /\ UNCHANGED <<config, conf, ring, ringId, key, keyId, tlsSet, crashes>>

(* pem.Encode(certOut, ...); its error is not looked at.                  *)
EncodeCert ==
  /\ pc = "encodeCert"
  /\ \/ cert' = "complete"
     \/ Faults /\ UNCHANGED cert
  /\ Goto("openKey")
  /\ UNCHANGED <<config, conf, ring, ringId, key, paired, keyId, tlsSet, crashes>>

(* os.OpenFile(defKey, O_WRONLY|O_CREATE|O_TRUNC); an error returns from  *)
(* genSelfTLS with the new cert and the old key on disk.                  *)
OpenKey ==
  /\ pc = "openKey"
  /\ \/ key' = "partial" /\ Goto("encodeKey")
     \/ Faults /\ Exit /\ UNCHANGED key
  /\ UNCHANGED <<config, conf, ring, ringId, cert, paired, keyId, tlsSet, crashes>>

(* pem.Encode(keyOut, ...), error not looked at; genSelfTLS returns nil   *)
(* and setupTLS calls ws.SetTLS(defCert, defKey).                          *)
EncodeKey ==
  /\ pc = "encodeKey"
  /\ \E k \in IF Faults THEN {"complete", "partial"} ELSE {"complete"} :
        /\ key' = k /\ paired' = TRUE
        /\ SetTLS(cert, k, TRUE)
  /\ Goto("install")
  /\ UNCHANGED <<config, conf, ring, ringId, cert, keyId, crashes>>

(* config.InstallHandlers, then ws.Listen; either may fail.               *)
Install == MkDir("install", "listen")
Listen == MkDir("listen", "serving")

(* A new process: locals and the TLS setting start over.                  *)
Start == Goto("statConfig") /\ keyId' = NoId /\ tlsSet' = NoTLS

(* handleSignals: SIGHUP calls osutil.RestartProcess, which re-executes    *)
(* the binary; if that fails, log.Fatal.                                   *)
Sighup ==
  /\ pc = "serving"
  /\ \/ Start
     \/ Faults /\ Exit /\ UNCHANGED <<keyId, tlsSet>>
  /\ UNCHANGED <<fileVars, crashes>>

(* The stopped server is started again (by its user or a supervisor).     *)
Restart ==
  /\ pc = "down"
  /\ Start
  /\ UNCHANGED <<fileVars, crashes>>

(* The process dies at any step; what it had written stays on disk.       *)
Crash ==
  /\ pc # "down" /\ crashes < MaxCrashes
  /\ Exit /\ crashes' = crashes + 1
  /\ UNCHANGED <<fileVars, keyId, tlsSet>>

(* The steps of one running process.                                      *)
Step ==
  /\ \/ StatConfig \/ MkDir("mkConfigDir", "mkBlobDir") \/ MkDir("mkBlobDir", "statRing")
     \/ StatRing \/ ReadRing \/ NewEntity \/ CreateRing \/ WriteRing
     \/ CreateConfig \/ WriteConfig \/ Load
     \/ SetupTLS \/ GenKey \/ CreateCert \/ EncodeCert \/ OpenKey \/ EncodeKey
     \/ Install \/ Listen
  /\ UNCHANGED <<flag, listenFlag>>

Next == Step \/ ((Sighup \/ Restart \/ Crash) /\ UNCHANGED <<flag, listenFlag>>)

(* The process runs its steps (main is never blocked before Serve), and a *)
(* stopped server is started again; SIGHUP and crashes are not forced.    *)
Fairness == WF_vars(Step) /\ WF_vars(Restart /\ UNCHANGED <<flag, listenFlag>>)

Spec == Init /\ [][Next]_vars /\ Fairness

-----------------------------------------------------------------------------
(* The identity a serving camlistored uses is the one its secret ring     *)
(* holds: newDefaultConfigFile writes conf.Identity from the ring it just *)
(* generated or from keyIdFromRing on the ring it reuses, and O_EXCL      *)
(* keeps a ring from ever being replaced, across crashes and restarts.    *)
ServingIdentityValid ==
  pc = "serving" => ring = "complete" /\ conf.identity = ringId

(* setupTLS hands ws.SetTLS the user's own pair, or a defCert and defKey  *)
(* that are both completely written and come from the same genSelfTLS call.*)
SetTLSPairValid ==
  \A t \in tlsSet :
     \/ t.cert = "user" /\ t.key = "user"
     \/ t.cert = "complete" /\ t.key = "complete" /\ t.paired

(* Restarting helps: once crashes stop, camlistored is serving again and  *)
(* again, whatever a crash interrupted.                                    *)
StartupServes == []<>(pc = "serving")

====
