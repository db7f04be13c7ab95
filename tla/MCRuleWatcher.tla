--------------------------- MODULE MCRuleWatcher ---------------------------
EXTENDS RuleWatcher
=============================================================================
