---------------------------- MODULE Configuration ----------------------------
(****************************************************************************)
(* The configuration of the library: where SimpleConfigLoader looks for the  *)
(* file, the file of the user that it makes when there is none, the lines it *)
(* understands, and the values that Configuration hands out.                 *)
(*                                                                           *)
(* A path is the sequence of its names, "/" first when it is absolute, and   *)
(* <<>> stands for NULL. A file system is a record: the directories, those   *)
(* among them that the process may write to, and the regular files, each     *)
(* with its lines and whether the process can read it. A line is the         *)
(* sequence of the fields that strtok finds between the signs "=", up to the *)
(* comment, in pieces of what the buffer of fgets takes; a field is the      *)
(* sequence of the words in it, and <<>> when it is blank.                   *)
(****************************************************************************)
EXTENDS Integers, Sequences, SequencesExt

NULL == <<>>
-----------------------------------------------------------------------------
(* Paths and files *)

parentDirectory(path) == IF Len(path) > 1 THEN Front(path)
                         ELSE IF path = <<"/">> THEN path ELSE <<".">>
joinPath(directory, name) == directory \o name
isAbsolutePath(path) == path # <<>> /\ Head(path) = "/"

isReadableFile(fs, path) == path \in DOMAIN fs.files /\ fs.files[path].readable
isDirectory(fs, path)    == path \in fs.dirs

\* The directory and the parents it lacks. The first that has to be made decides: it needs a
\* parent that may be written to and no file in its place; what is below it is new.
Made(path, fs) == {SubSeq(path, 1, n) : n \in 1..Len(path)} \ fs.dirs
CanCreateDirectory(fs, path) ==
  Made(path, fs) # {} =>
    LET first == CHOOSE p \in Made(path, fs) : \A q \in Made(path, fs) : Len(p) <= Len(q)
    IN  first \notin DOMAIN fs.files /\ parentDirectory(first) \in fs.writable
createDirectory(fs, path) ==
  IF ~ CanCreateDirectory(fs, path) THEN fs
  ELSE [fs EXCEPT !.dirs = @ \union Made(path, fs), !.writable = @ \union Made(path, fs)]

Put(fs, path, lines) ==
  [fs EXCEPT !.files = [p \in DOMAIN @ \union {path} |->
                          IF p = path THEN [readable |-> TRUE, lines |-> lines] ELSE @[p]]]

\* The contents go to a temporary file that is then linked to the path, which fails if there
\* is something by now. The write and the link may go well or fail, and another process may
\* have installed its own contents in between; a file that is there is never replaced.
Fates == {"installed", "failed", "overtaken"}
installFileAtomically(fs, path, contents, fate) ==
  LET there == createDirectory(fs, parentDirectory(path)) IN
  IF isReadableFile(fs, path) \/ ~ CanCreateDirectory(fs, parentDirectory(path)) THEN fs
  ELSE IF path \in DOMAIN there.files \/ path \in there.dirs
          \/ parentDirectory(path) \notin there.writable \/ fate = "failed" THEN there
  ELSE Put(there, path, IF fate = "overtaken" THEN contents.others ELSE contents.own)

DEFAULT_USER_CONFIGURATION ==
  <<<<>>, <<>>,
    << <<"directories.tokendir">>, <<"tokens">> >>,
    << <<"objectstore.backend">>, <<"file">> >>,
    << <<"objectstore.umask">>, <<0, 0, 7, 7>> >>,
    << <<"log.level">>, <<"ERROR">> >>,
    << <<"slots.removable">>, <<"false">> >>,
    << <<"slots.mechanisms">>, <<"ALL">> >>,
    << <<"library.reset_on_fork">>, <<"false">> >>,
    << <<"FAKE_RUTOKEN_ECP">>, <<"false">> >>>>

\* The other process has had no template. The caller asks whether the file can be read now.
materializeUserConfig(fs, userPath, templatePath, fate) ==
  installFileAtomically(fs, userPath,
    [own    |-> IF templatePath = NULL THEN DEFAULT_USER_CONFIGURATION
                ELSE fs.files[templatePath].lines,
     others |-> DEFAULT_USER_CONFIGURATION], fate)
-----------------------------------------------------------------------------
(* Where the file is.  The environment: the build (the portable one or not,  *)
(* for Windows or not), the path in SOFTHSM2_CONF, the home directories that *)
(* the sources name in the order they are asked (HOME and the password file; *)
(* on Windows USERPROFILE, HOMEDRIVE with HOMEPATH, the shell), the path of  *)
(* the module, the names that fit into the buffer of a path, and the path    *)
(* that was built in.                                                        *)

\* Beside the module.
getPortableConfigPath(env, fs) ==
  LET beside(name) == joinPath(parentDirectory(env.module), <<name>>)
      found == SelectSeq(<<beside("softhsm.conf"), beside("softhsm2.conf")>>,
                         LAMBDA p : isReadableFile(fs, p))
  IN  IF env.module = NULL \/ found = <<>> THEN NULL ELSE Head(found)

USER_PATH_TAIL(env) ==
  CASE env.portable -> <<"softhsm", "softhsm.conf">>
    [] env.windows /\ ~ env.portable -> <<"softhsm2.conf">>
    [] OTHER -> <<".config", "softhsm2", "softhsm2.conf">>

\* A path that is too long is refused on Windows and cut off elsewhere.
composeUserConfigPath(env, home) ==
  LET path == home \o USER_PATH_TAIL(env) IN
  IF Len(path) <= env.pathMax THEN path
  ELSE IF env.windows THEN NULL ELSE SubSeq(path, 1, env.pathMax)

\* The first source that names a directory.
get_user_path(env) ==
  LET known == SelectSeq(env.homes, LAMBDA h : h # NULL) IN
  IF known = <<>> THEN NULL ELSE composeUserConfigPath(env, Head(known))

\* The path, and the file system once it has been found.
Found(path, fs) == [path |-> path, fs |-> fs]

getConfigPathPortable(env, fs, fate) ==
  LET portablePath == getPortableConfigPath(env, fs)
      userPath     == get_user_path(env)
      after        == materializeUserConfig(fs, userPath, NULL, fate)
  IN  CASE env.conf # NULL /\ isReadableFile(fs, env.conf) -> Found(env.conf, fs)
        [] OTHER ->
             IF portablePath # NULL THEN Found(portablePath, fs)
             ELSE IF userPath = NULL THEN Found(NULL, fs)
             ELSE IF isReadableFile(fs, userPath) THEN Found(userPath, fs)
             ELSE Found(IF isReadableFile(after, userPath) THEN userPath ELSE NULL, after)

\* SOFTHSM2_CONF is taken at its word, whether the file is there or not.
getConfigPathOrdinary(env, fs, fate) ==
  LET portablePath == getPortableConfigPath(env, fs)
      userPath     == get_user_path(env)
      after        == materializeUserConfig(fs, userPath, portablePath, fate)
      fallback     == IF portablePath # NULL THEN portablePath ELSE env.built_in
  IN  IF env.conf # NULL THEN Found(env.conf, fs)
      ELSE IF userPath = NULL THEN Found(fallback, fs)
      ELSE IF isReadableFile(fs, userPath) THEN Found(userPath, fs)
      ELSE Found(IF isReadableFile(after, userPath) THEN userPath ELSE fallback, after)

getConfigPath(env, fs, fate) ==
  IF env.portable THEN getConfigPathPortable(env, fs, fate)
  ELSE getConfigPathOrdinary(env, fs, fate)
-----------------------------------------------------------------------------
(* The values.  A configuration is a function from the names that are set:   *)
(* a name has one type, so the three maps of the class have no name twice.   *)

Strings  == {"directories.tokendir", "objectstore.backend", "log.level", "log.file",
             "slots.mechanisms"}
Octals   == {"objectstore.umask"}
Bools    == {"slots.removable", "library.reset_on_fork", "FAKE_RUTOKEN_ECP",
             "RUTOKEN_FORCE_SENSITIVE", "DISABLE_OTHER_28147_MODES"}
getType(key) == CASE key \in Strings -> "STRING"
                  [] key \in Octals  -> "INT_OCTAL"
                  [] key \in Bools   -> "BOOL"
                  [] OTHER           -> "UNSUPPORTED"

set(conf, key, value) == [k \in DOMAIN conf \union {key} |-> IF k = key THEN value ELSE conf[k]]
get(conf, key, ifEmpty) == IF key \in DOMAIN conf THEN conf[key] ELSE ifEmpty

\* Case does not matter.
AsTrue  == {<<"true">>, <<"True">>, <<"TRUE">>}
AsFalse == {<<"false">>, <<"False">>, <<"FALSE">>}
string2bool(value) == {b \in BOOLEAN : IF b THEN value \in AsTrue ELSE value \in AsFalse}

\* strtol: up to the first character that is no octal digit.
octal(value) ==
  LET digits == {n \in 0..Len(value) : \A i \in 1..n : value[i] \in 0..7}
      last   == CHOOSE n \in digits : \A k \in digits : k <= n
  IN  FoldLeft(LAMBDA sum, d : 8 * sum + d, 0, SubSeq(value, 1, last))

\* What one line does. A line without a name and a value is skipped, and so is a name that is
\* not known (as all names of several words are) and a value that is no Boolean. What follows a second "=" is not looked at.
loadLine(conf, line, configDirectory) ==
  IF Len(line) < 2 \/ Len(line[1]) # 1 \/ line[2] = <<>> THEN conf
  ELSE LET name  == line[1][1]
           value == line[2]
       IN  CASE getType(name) = "STRING" ->
                  set(conf, name,
                      IF name = "directories.tokendir" /\ ~ isAbsolutePath(value)
                        THEN joinPath(configDirectory, value) ELSE value)
             [] getType(name) = "INT_OCTAL" -> set(conf, name, octal(value))
             [] getType(name) = "BOOL" ->
                  IF string2bool(value) = {} THEN conf
                  ELSE set(conf, name, TRUE \in string2bool(value))
             [] OTHER -> conf

\* What was set before is dropped first. The portable build makes the token directory, any
\* other leaves that to the administrator.
Loaded(ok, conf, fs) == [ok |-> ok, conf |-> conf, fs |-> fs]
loadConfiguration(env, found) ==
  LET conf   == FoldLeft(LAMBDA c, line : loadLine(c, line, parentDirectory(found.path)), <<>>,
                         found.fs.files[found.path].lines)
      tokens == get(conf, "directories.tokendir", NULL)
  IN  IF found.path = NULL \/ ~ isReadableFile(found.fs, found.path)
        THEN Loaded(FALSE, <<>>, found.fs)
      ELSE IF ~ env.portable \/ tokens = NULL THEN Loaded(TRUE, conf, found.fs)
      ELSE Loaded(CanCreateDirectory(found.fs, tokens), conf, createDirectory(found.fs, tokens))

reload(env, fs, fate) == loadConfiguration(env, getConfigPath(env, fs, fate))
-----------------------------------------------------------------------------
(* What C_Initialize does with the values *)

setLogLevel(level) == level \in {<<"ERROR">>, <<"WARNING">>, <<"INFO">>, <<"DEBUG">>}
selectBackend(defs, backend) ==
  backend \in {<<"file">>} \union (IF "HAVE_OBJECTSTORE_BACKEND_DB" \in defs THEN {<<"db">>} ELSE {})

\* The store makes its directory itself, but not the parents of it, and has to read it.
\* The umask takes rights away from a new directory: 0400 to read it, 0200 to write to it.
Bit(umask, right) == (umask \div right) % 2 = 1
ensureStoreDirectory(fs, path, umask) ==
  \/ isDirectory(fs, path)
  \/ path \notin DOMAIN fs.files /\ parentDirectory(path) \in fs.writable /\ ~ Bit(umask, 256)
WithStoreDirectory(fs, path, umask) ==
  IF path \in fs.dirs \union DOMAIN fs.files \/ parentDirectory(path) \notin fs.writable THEN fs
  ELSE [fs EXCEPT !.dirs = @ \union {path},
                  !.writable = @ \union IF Bit(umask, 128) THEN {} ELSE {path}]
=============================================================================
