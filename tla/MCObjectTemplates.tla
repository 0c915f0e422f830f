------------------------- MODULE MCObjectTemplates -------------------------
EXTENDS ObjectTemplates

\* For each rule of the policy an entry that it is about.
MCEntries ==
  {<<"PRIVATE", "true">>, <<"PRIVATE", "false">>, <<"MODIFIABLE", "false">>, <<"TRUSTED", "true">>,
   <<"VALUE", "empty">>, <<"VALUE_LEN", "short">>, <<"VALUE_BITS", "short">>,
   <<"CHECK_VALUE", "other">>, <<"CHECK_VALUE", "empty">>, <<"ALWAYS_AUTHENTICATE", "true">>,
   <<"DERIVE", "malformed">>, <<"START_DATE", "malformed">>}
MCChanges ==
  {<<"PRIVATE", "true">>, <<"TRUSTED", "true">>, <<"CHECK_VALUE", "other">>, <<"ID", "some">>}
=============================================================================
