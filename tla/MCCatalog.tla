------------------------------ MODULE MCCatalog ------------------------------
EXTENDS Catalog

CONSTANTS mine, fork

\* "mine/*,!fork"
OwnRepos == [include |-> {mine, fork}, exclude |-> {}, noForks |-> TRUE]

TwoFeatured == <<mine, fork>>
=============================================================================
