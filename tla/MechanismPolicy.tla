--------------------------- MODULE MechanismPolicy ---------------------------
(****************************************************************************)
(* The mechanisms an application may use: the list that C_Initialize makes   *)
(* from the option slots.mechanisms of the configuration it has read, what   *)
(* C_GetMechanismList and C_GetMechanismInfo say of it, and the functions    *)
(* that start an operation or make a key with a mechanism. Sessions, keys    *)
(* and parameters are as the functions want them: what is left of each is    *)
(* its choice of mechanism. The Rutoken profile, which puts a list of its    *)
(* own in place, is off.                                                     *)
(****************************************************************************)
EXTENDS Mechanisms, Configuration

CONSTANTS
  Builds,       \* sets of macros, a build is one of them
  Environments, \* what getConfigPath asks for, and the token directory that was built in
  FileSystems,  \* as the process finds them
  Allowed,      \* values of CKA_ALLOWED_MECHANISMS
  Asked         \* the mechanisms applications ask for

VARIABLES
  defs,                  \* the build
  env,                   \* the environment
  fs,                    \* the files and directories
  configuration,         \* the values that are set
  isInitialised,
  supportedMechanisms,
  reply                  \* of the last call: [function, mechanism, rv, flags]

startup == <<defs, env, fs, configuration>>
vars == <<startup, isInitialised, supportedMechanisms, reply>>

Answer(f, m, rv, flags) == [function |-> f, mechanism |-> m, rv |-> rv, flags |-> flags]
NoCall == Answer("none", "none", "OK", {})

Init ==
  /\ defs \in Builds
  /\ env \in Environments
  /\ fs \in FileSystems
  /\ configuration = <<>>
  /\ isInitialised = FALSE
  /\ supportedMechanisms = [m \in BuiltIn(defs) |-> 0]
  /\ reply = NoCall

\* The steps that may fail, in the order they are taken. What the earlier ones have done, the
\* values that were read and the files that were made, stays when a later one fails.
C_Initialize(arguments, fate) ==
  /\ ~isInitialised
  /\ \/ /\ arguments = "bad"
        /\ reply' = Answer("C_Initialize", "none", "ARGUMENTS_BAD", {})
        /\ UNCHANGED <<startup, isInitialised, supportedMechanisms>>
     \/ /\ arguments = "good"
        /\ \E new \in {reload(env, fs, fate)} :
             LET path    == get(new.conf, "directories.tokendir", env.tokendir)
                 umask   == get(new.conf, "objectstore.umask", 63)
                 started == /\ new.ok
                            /\ setLogLevel(get(new.conf, "log.level", <<"INFO">>))
                            /\ selectBackend(defs, get(new.conf, "objectstore.backend", <<"file">>))
             IN  /\ configuration' = new.conf
                 /\ fs' = IF started THEN WithStoreDirectory(new.fs, path, umask) ELSE new.fs
                 /\ isInitialised' = (started /\ ensureStoreDirectory(new.fs, path, umask))
        /\ supportedMechanisms' =
             IF isInitialised'
               THEN prepareSupportedMechanisms(defs, get(configuration', "slots.mechanisms", <<"ALL">>))
               ELSE supportedMechanisms
        /\ reply' = IF isInitialised' THEN NoCall
                    ELSE Answer("C_Initialize", "none", "GENERAL_ERROR", {})
        /\ UNCHANGED <<defs, env>>

C_Finalize ==
  /\ isInitialised
  /\ isInitialised' = FALSE
  /\ supportedMechanisms' = [m \in BuiltIn(defs) |-> 0]
  /\ reply' = NoCall
  /\ UNCHANGED startup

\* The application reads the list into a buffer that is large enough.
C_GetMechanismList ==
  /\ isInitialised
  /\ \E m \in Members(supportedMechanisms) :
       reply' = Answer("C_GetMechanismList", m, "OK", {})
  /\ UNCHANGED <<startup, isInitialised, supportedMechanisms>>

C_GetMechanismInfo(m) ==
  /\ isInitialised
  /\ reply' = LET known == isMechanismPermitted(supportedMechanisms, {}, m)
                             /\ m \in DOMAIN MechanismInfo(defs)
              IN  Answer("C_GetMechanismInfo", m,
                         IF known THEN "OK" ELSE "MECHANISM_INVALID",
                         IF known THEN AdvertisedFor(defs, m) ELSE {})
  /\ UNCHANGED <<startup, isInitialised, supportedMechanisms>>

\* The functions that call isMechanismPermitted, all of them with the key they use.
AsksPolicy ==
  {"C_EncryptInit", "C_DecryptInit", "C_SignInit", "C_VerifyInit", "C_WrapKey", "C_UnwrapKey",
   "C_DeriveKey", "C_EncapsulateKey", "C_DecapsulateKey"}

Use(f, m, allowed) ==
  /\ isInitialised
  /\ reply' = Answer(f, m,
                     IF /\ m \in Cases(defs)[f]
                        /\ f \in AsksPolicy => isMechanismPermitted(supportedMechanisms, allowed, m)
                     THEN "OK" ELSE "MECHANISM_INVALID", {})
  /\ UNCHANGED <<startup, isInitialised, supportedMechanisms>>

Next ==
  \/ \E arguments \in {"good", "bad"}, fate \in Fates : C_Initialize(arguments, fate)
  \/ C_Finalize
  \/ C_GetMechanismList
  \/ \E m \in Asked : C_GetMechanismInfo(m)
  \/ \E m \in Asked, f \in DOMAIN Cases(defs), allowed \in Allowed : Use(f, m, allowed)

Spec == Init /\ [][Next]_vars

-----------------------------------------------------------------------------
\* softhsm2.conf(5) on slots.mechanisms: "Allows to enable and disable any of the PKCS#11
\* mechanisms", and of the list of what should be enabled "do not forget about the keygen
\* mechanisms". A mechanism that the option does not enable can then not be used by any
\* function.
DisabledUnusable ==
  reply.function \in DOMAIN Cases(defs) /\ reply.rv = "OK"
    => reply.mechanism \in Members(supportedMechanisms)
=============================================================================
