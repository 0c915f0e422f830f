-------------------------- MODULE MCMechanismPolicy --------------------------
EXTENDS MechanismPolicy

\* The build with everything that OpenSSL has, and the same for FIPS.
MCBuilds ==
  LET all == Macros \ {"WITH_GOST", "WITH_FIPS"}
  IN  {all, all \union {"WITH_FIPS"}}

\* Values of slots.mechanisms: everything, a list with a name that is not known, and a list of
\* what is not to be used.
MCOptions ==
  {<<"ALL">>, <<"AES_CBC", "SHA256_RSA_PKCS", "MISSPELT">>, <<"-", "MD5", "RSA_PKCS_KEY_PAIR_GEN">>}

\* Files of an administrator: with a directory of tokens that is relative, absolute or
\* missing, an umask that is cut short, lines that are skipped and a level that is not known.
MCLines ==
  {<< <<>>, << <<"directories.tokendir">>, <<"tokens">> >>, << <<"slots.mechanisms">>, option >> >> :
     option \in MCOptions}
  \union
  {<< << <<"directories.tokendir">>, <<"/", "var", "tokens">> >>,
      << <<"objectstore.umask">>, umask >>, << <<"slots.removable">>, <<"yes">> >>,
      << <<"no", "such">>, <<"name">> >>, << <<"slots.mechanisms">>, <<>> >> >> :
     umask \in {<<0, 0, 7, 7>>, <<4, 0, 0, 9, 7>>}}
  \union
  {<< << <<"log.level">>, <<level>> >>, << <<"log.level">> >>,
      << <<"objectstore.backend">>, <<"db">>, <<"file">> >> >> : level \in {"DEBUG", "LOUD"}}

Etc    == <<"/", "etc", "softhsm2.conf">>
Home   == <<"/", "home">>
Module == <<"/", "opt", "libsofthsm2.so">>
User   == <<"/", "home", ".config", "softhsm2", "softhsm2.conf">>

MCEnvironments ==
  [portable : BOOLEAN, windows : {FALSE}, conf : {NULL, Etc}, homes : {<<NULL, Home>>, <<NULL>>},
   module : {Module}, pathMax : {5}, built_in : {Etc}, tokendir : {<<"/", "var", "tokens">>}]
  \union
  [portable : BOOLEAN, windows : {TRUE}, conf : {NULL}, homes : {<<NULL, NULL, Home>>},
   module : {NULL}, pathMax : {2, 5}, built_in : {Etc}, tokendir : {<<"/", "var", "tokens">>}]

\* One file, at one of the places. The plainest of them also where it cannot be read, and where
\* the home directory is read only.
MCFileSystems ==
  LET dirs  == {<<"/">>, <<"/", "etc">>, <<"/", "home">>, <<"/", "opt">>, <<"/", "var">>}
      plain == << << <<"log.level">>, <<"DEBUG">> >> >>
      System(path, r, w, lines) ==
        [dirs |-> dirs, writable |-> w, files |-> [p \in {path} |-> [readable |-> r, lines |-> lines]]]
      places == {Etc, User, <<"/", "opt", "softhsm2.conf">>}
  IN  {System(path, TRUE, dirs, lines) : path \in places, lines \in MCLines}
        \union {System(path, r, w, plain) : path \in places, r \in BOOLEAN, w \in {{<<"/", "var">>}, dirs}}

MCAllowed == {{}, {"RSA_PKCS"}}

MCAsked ==
  {"MD5", "SHA256", "RSA_PKCS_KEY_PAIR_GEN", "AES_KEY_GEN", "AES_CBC", "RSA_PKCS", "SHA256_RSA_PKCS",
   "DES3_CBC_PAD", "GOSTR3410", "ML_KEM", "CONCATENATE_BASE_AND_KEY"}
=============================================================================
