SPECIFICATION Spec
CONSTANT MaxEvents = 1
INVARIANT Singleton
