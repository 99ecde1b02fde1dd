------------------------------ MODULE MCDamage ------------------------------
EXTENDS Damage
=============================================================================
