---------------------------- MODULE CatalogClaims ----------------------------
(* What the loader's comments say of a catalog's last question.             *)
EXTENDS MCCatalogLoad

\* A catalog that ends with too few answers to its last question is an error
\* (parser.h:23): no accepted file ends in the text of a question.
LastQuestionAnswered == at = "done" /\ res.status = "OK" => tail # "text"

=============================================================================
