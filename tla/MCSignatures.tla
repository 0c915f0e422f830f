----------------------------- MODULE MCSignatures -----------------------------
(***************************************************************************)
(* Three builds, each with the keys it knows.                              *)
(***************************************************************************)
EXTENDS Signatures

\* The keys of the GOST R 34.10-2001 build are not those of the 2012 builds.
MCBuilds ==
  {[lib |-> "OSSL",  defs |-> Macros \ {"WITH_GOST", "WITH_FIPS"}, keys |-> DOMAIN KeyType \ {"gost94"}],
   [lib |-> "Botan", defs |-> Macros \ {"WITH_GOST", "WITH_FIPS", "WITH_ML_DSA", "WITH_ML_KEM"},
    keys |-> DOMAIN KeyType \ {"gost94", "mldsa"}],
   [lib |-> "Botan", defs |-> {"WITH_ECC", "WITH_GOST", "WITH_RAW_PSS"},
    keys |-> {"rsa512", "rsa1024", "dsa", "ec", "gost94", "generic", "gost28147"}]}

PSS(h, mgf, salt) == [NoParam EXCEPT !.hash = h, !.mgf = mgf, !.sLen = salt]

\* For PSS a salt of no length, one of a digest, which the shorter key has no room for with
\* the longer hashes, and a mask of another hash than the digest.
MCParams(m) ==
  CASE m = "RSA_PKCS_PSS"     -> {PSS(h, h, salt) : h \in {"SHA1", "SHA256", "SHA512"}, salt \in {0, 32}}
                                   \union {PSS("SHA256", "SHA1", 0)}
    [] m \in DOMAIN PSSHash   -> {PSS(PSSHash[m], PSSHash[m], salt) : salt \in {0, 32}}
                                   \union {PSS("SHA256", "SHA1", 0)}
    [] m = "RSA_PKCS_OAEP"    -> {PSS("SHA1", "SHA1", 0), PSS("SHA1", "SHA256", 0), PSS("SHA256", "SHA1", 0), NoParam,
                                  [PSS("SHA1", "SHA1", 0) EXCEPT !.context = "label"]}
    [] m = "ML_DSA"           -> {NoParam, [NoParam EXCEPT !.context = "context"]}
    [] m \in DOMAIN MacMechs  -> {NoParam, PSS("SHA256", "SHA256", 0)}
    [] m \in DOMAIN AsymSignMechs /\ AsymSignMechs[m].algo = "GOST" ->
         {NoParam} \union {[NoParam EXCEPT !.hash = h] : h \in {"GOST2012_256", "GOST2012_512"}}
    [] OTHER                  -> {NoParam}

a == Text(<<"a">>)

MCRawData ==
  {Text(<<>>), a} \union {Digest(h, a) : h \in {"SHA1", "SHA256", "SHA512", "GOST2012_512"}}
    \union {Info(h, Digest(h, a)) : h \in {"SHA1", "SHA256"}}

MCTexts == {<<>>, <<"a">>, <<"b">>, <<"a", "b">>}
=============================================================================
