---------------------------- MODULE MCParticleQueue ----------------------------
(* TLC instances of ParticleQueue: the model values of the cfg files. *)
EXTENDS ParticleQueue, TLC
CONSTANTS a, b, c, d1, d2, d3, d4, x0, x1

(* Particles that do not exist yet are interchangeable. *)
NewParticles == Permutations(Particles \ InitParticles)
===============================================================================
