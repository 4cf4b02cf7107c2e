CONSTANTS
  Parts = {"realtime tools", "realtime errors", "realtime commits", "realtime turns",
           "realtime hydration", "gemini", "gemini executor", "gemini heard",
           "browser tools", "browser tools gemini", "browser call", "speech xai",
           "speech texts", "speech openai", "speech gemini", "speech repeated",
           "speech budget"}
  v1 = v1
  v2 = v2
  v3 = v3
  v4 = v4
SPECIFICATION Spec
INVARIANTS
  
  SpeechIsVetted
PROPERTIES
  
  GeminiIsSound
  
SYMMETRY Symmetry
CHECK_DEADLOCK FALSE
