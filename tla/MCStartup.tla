------------------------------ MODULE MCStartup ------------------------------
(* Three ways the program is really run, each with at most two variables   *)
(* that are forgotten, mistyped or left over from another one.             *)
EXTENDS Startup, FiniteSetsExt

Choice(own) == {"unset", "", Identity, "other", own}
Text == {"", "set"}
Number == {"", "positive", "zero", "nan", "no number"}

Domain == [DB_AUTH_MODE |-> Choice("password"),
           AZURE_OPENAI_AUTH_MODE |-> Choice("api-key"),
           LLM_PROVIDER |-> {"unset", "", "stub", "azure-openai", "other"},
           DATABASE_URL |-> Text, AZURE_CLIENT_ID |-> Text,
           AZURE_OPENAI_ENDPOINT |-> Text, AZURE_OPENAI_API_KEY |-> Text,
           CHAT_API_KEY |-> {"", "short", "long"},
           CHAT_DISABLED |-> {"", "true", "false", "other"},
           LLM_MAX_ATTEMPTS |-> Number \ {"nan"}, LLM_TIMEOUT_SECONDS |-> Number,
           OTHER_NUMBERS |-> Number]

Local == [DB_AUTH_MODE |-> "unset", AZURE_OPENAI_AUTH_MODE |-> "unset",
          LLM_PROVIDER |-> "unset", DATABASE_URL |-> "set", AZURE_CLIENT_ID |-> "",
          AZURE_OPENAI_ENDPOINT |-> "", AZURE_OPENAI_API_KEY |-> "",
          CHAT_API_KEY |-> "long", CHAT_DISABLED |-> "",
          LLM_MAX_ATTEMPTS |-> "", LLM_TIMEOUT_SECONDS |-> "", OTHER_NUMBERS |-> ""]

WithKey == [Local EXCEPT !.LLM_PROVIDER = "azure-openai",
                         !.AZURE_OPENAI_ENDPOINT = "set",
                         !.AZURE_OPENAI_API_KEY = "set"]

WithIdentity == [Local EXCEPT !.DB_AUTH_MODE = Identity,
                              !.AZURE_OPENAI_AUTH_MODE = Identity,
                              !.LLM_PROVIDER = "azure-openai",
                              !.AZURE_CLIENT_ID = "set",
                              !.AZURE_OPENAI_ENDPOINT = "set"]

OneChanged(e) == UNION {{[e EXCEPT ![v] = x] : x \in Domain[v]} : v \in DOMAIN e}

const_Envs == UNION {OneChanged(e) :
                     e \in UNION {OneChanged(b) : b \in {Local, WithKey, WithIdentity}}}

\* Two processes at a time: the properties compare no more.
const_Groups == kSubset(2, Kinds)
=============================================================================
