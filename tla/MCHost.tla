------------------------------- MODULE MCHost -------------------------------
(***************************************************************************)
(* The program on its host, and what needs no other component, each on its *)
(* own: a behaviour is one of the modules below, and the variables of the  *)
(* others stay as they are.                                                *)
(***************************************************************************)
EXTENDS Process, Backups, SessionBackup, Settings, Catalogue, Answers, Recommendations,
        Transactions, Media, Schema, Texts

VARIABLE part

vars ==
  <<part, processVars, backupVars, sessionBackupVars, settingsVars, catalogueVars, answerVars,
    recommendationVars, transactionVars, mediaVars, schemaVars, textVars>>

MCTargets == <<"config", "prompt", "builder", "knowledge", "env">>
MCPayloads ==
  {{"config", "prompt", "builder", "env"}, {"config", "prompt", "builder"}, {"builder", "env"}, {}}
MCValues == "size" :> {"small", "large"} @@ "kind" :> {"plain"}
MCRounds == "live" :> 5 @@ "preview" :> 3

\* Three perfumes of one mix, each of a family, and one of another: numbers stand for names, and 12 is as long as 2.
MCRows == <<
  [perfume |-> 1, mix |-> 11, family |-> "fresh", hints |-> {}, sweet |-> FALSE],
  [perfume |-> 2, mix |-> 12, family |-> "woody", hints |-> {"women"}, sweet |-> TRUE],
  [perfume |-> 3, mix |-> 11, family |-> "woody", hints |-> {"men"}, sweet |-> FALSE],
  [perfume |-> 4, mix |-> 11, family |-> "glamour", hints |-> {}, sweet |-> TRUE]>>
MCLength == 1 :> 4 @@ 2 :> 6 @@ 3 :> 4 @@ 4 :> 4 @@ 11 :> 5 @@ 12 :> 6
MCVersions == {{}, {1, 2}, {1, 2, 3, 4}}
Hit(notes, families, audiences, qualities, score) ==
  [about |-> TRUE, notes |-> notes, families |-> families, audiences |-> audiences,
   qualities |-> qualities, score |-> score]
MCPages == {
  << >>,
  <<[Hit({"rose"}, {"fresh"}, {"men"}, {}, 9) EXCEPT !.about = FALSE], Hit({"rose"}, {"fresh"}, {"men"}, {}, 3)>>,
  <<Hit({"rose", "oud"}, {"fresh", "woody"}, {"women", "men"}, {"sweet"}, 5), Hit({"oud"}, {"woody"}, {"women"}, {}, 5)>>,
  <<Hit({"oud"}, {"woody"}, {"men"}, {"sweet"}, 8), Hit({"musk"}, {"woody"}, {"women"}, {"soft"}, 2)>>}
Wish ==
  [kind |-> "recommend", families |-> <<"fresh", "woody">>, notes |-> {}, audiences |-> {}, qualities |-> {},
   dry |-> FALSE, mixed |-> FALSE, count |-> 1, online |-> TRUE, said |-> {}]
MCNeeds == {
  [Wish EXCEPT !.audiences = {"women"}, !.dry = TRUE],
  [Wish EXCEPT !.audiences = {"women", "men"}, !.count = 2, !.mixed = TRUE],
  [Wish EXCEPT !.families = <<"woody">>, !.online = FALSE],
  [Wish EXCEPT !.mixed = TRUE, !.qualities = {"soft"}],
  [Wish EXCEPT !.kind = "match", !.families = <<"fresh", "glamour", "woody">>, !.notes = {"rose", "oud"}, !.count = 3],
  [Wish EXCEPT !.kind = "match", !.families = <<"woody">>, !.count = 3],
  [Wish EXCEPT !.kind = "match", !.count = 1],
  [Wish EXCEPT !.kind = "detail", !.said = {1, 11, 3}],
  [Wish EXCEPT !.kind = "fit", !.said = {2, 12, 1}, !.audiences = {"men"}],
  [Wish EXCEPT !.kind = "fit", !.said = {2, 1}, !.audiences = {"men"}]}

\* Ani's picture and Budi's are the same file.
PostOf(sender, kind, content) ==
  [from |-> sender, kind |-> kind, content |-> content, size |-> "fits", allowed |-> TRUE]
MCPosts ==
  "m1" :> PostOf("ani", "image", "x") @@ "m2" :> PostOf("budi", "voice", "y") @@
  "m3" :> PostOf("budi", "image", "x") @@ "m4" :> [PostOf("ani", "document", "z") EXCEPT !.size = "too large"] @@
  "m5" :> [PostOf("ani", "place", "p") EXCEPT !.allowed = FALSE] @@ "m6" :> PostOf("budi", "place", "q") @@
  "m7" :> [PostOf("budi", "odd", "o") EXCEPT !.allowed = FALSE] @@
  "m8" :> [PostOf("ani", "document", "z") EXCEPT !.size = "declared too large"]

MCKinds == "ani" :> "person" @@ "lid" :> "hidden" @@ "grp" :> "group"

Init ==
  /\ part \in {"process", "backups", "session", "settings", "catalogue", "answers", "recommendations", "transactions", "media",
               "schema", "texts"}
  /\ SchemaInit /\ (part # "schema" => tables = << >>)
  \* Rows that no step tells from others kept here.
  /\ letters["lid"] = "completed" /\ phone["ani"] # "own"
  /\ edited # 0 => requests = << >>
  /\ ProcessInit /\ BackupsInit /\ AnswersInit /\ RecommendationsInit /\ TextsInit
  /\ SessionBackupInit /\ (part # "session" => \A c \in DOMAIN chosen \ {"provider"} : ~chosen[c])
  /\ (part # "session" => chosen.provider = "s3")
  /\ SettingsInit /\ (part # "settings" => \A t \in Target : disk[t] = CHOOSE e \in Edition : TRUE)
  \* At first the combinations of a scheme differ in price; two of one price come with an edit.
  /\ CatalogueInit /\ (part # "catalogue" => catalogue = << >>) /\ \A s \in DOMAIN catalogue : IsInjective(catalogue[s])
  /\ TransactionsInit /\ (part # "transactions" => driver = "sqlite" /\ \A j \in Job : single[j])
  /\ MediaInit /\ (part # "media" => \A p \in Post : handling[p] = "gone")

Next ==
  \/ /\ part = "process" /\ ProcessNext
     /\ UNCHANGED <<part, backupVars, sessionBackupVars, settingsVars, catalogueVars,
                       answerVars, recommendationVars, transactionVars, mediaVars, schemaVars, textVars>>
  \/ /\ part = "backups" /\ BackupsNext
     /\ UNCHANGED <<part, processVars, sessionBackupVars, settingsVars, catalogueVars,
                       answerVars, recommendationVars, transactionVars, mediaVars, schemaVars, textVars>>
  \/ /\ part = "session" /\ SessionBackupNext
     /\ UNCHANGED <<part, processVars, backupVars, settingsVars, catalogueVars, answerVars,
                       recommendationVars, transactionVars, mediaVars, schemaVars, textVars>>
  \/ /\ part = "settings" /\ SettingsNext
     /\ UNCHANGED <<part, processVars, backupVars, sessionBackupVars, catalogueVars,
                       answerVars, recommendationVars, transactionVars, mediaVars, schemaVars, textVars>>
  \/ /\ part = "catalogue" /\ CatalogueNext
     /\ UNCHANGED <<part, processVars, backupVars, sessionBackupVars, settingsVars,
                       answerVars, recommendationVars, transactionVars, mediaVars, schemaVars, textVars>>
  \/ /\ part = "answers" /\ AnswersNext
     /\ UNCHANGED <<part, processVars, backupVars, sessionBackupVars, settingsVars,
                       catalogueVars, recommendationVars, transactionVars, mediaVars, schemaVars, textVars>>
  \/ /\ part = "recommendations" /\ RecommendationsNext
     /\ UNCHANGED <<part, processVars, backupVars, sessionBackupVars, settingsVars,
                       catalogueVars, answerVars, transactionVars, mediaVars, schemaVars, textVars>>
  \/ /\ part = "transactions" /\ TransactionsNext
     /\ UNCHANGED <<part, processVars, backupVars, sessionBackupVars, settingsVars,
                       catalogueVars, answerVars, recommendationVars, mediaVars, schemaVars, textVars>>
  \/ /\ part = "media" /\ MediaNext
     /\ UNCHANGED <<part, processVars, backupVars, sessionBackupVars, settingsVars,
                       catalogueVars, answerVars, recommendationVars, transactionVars, schemaVars, textVars>>
  \/ /\ part = "schema" /\ SchemaNext
     /\ UNCHANGED <<part, processVars, backupVars, sessionBackupVars, settingsVars,
                       catalogueVars, answerVars, recommendationVars, transactionVars, mediaVars, textVars>>
  \/ /\ part = "texts" /\ TextsNext
     /\ UNCHANGED <<part, processVars, backupVars, sessionBackupVars, settingsVars, catalogueVars,
                    answerVars, recommendationVars, transactionVars, mediaVars, schemaVars>>

Spec == Init /\ [][Next]_vars
=============================================================================
